---- MODULE Spec2Model ----
(***************************************************************************)
(* Model of the username probing engine of ReconRadar (src/unve1ler.py)    *)
(* and of the /search route that calls it (src/app.py).                    *)
(*                                                                         *)
(* Strings are sequences of one-character strings, so that the string      *)
(* operations of the code (strip, split, join, replace, re.sub, upper,     *)
(* lower, capitalize) are computed character by character.                 *)
(***************************************************************************)
EXTENDS Integers, Sequences, FiniteSets, TLC

\* ------------------------------------------------------------------------
\* Bounds of the model
\* ------------------------------------------------------------------------

\* Longest username enumerated exhaustively by the generator specification.
MaxLen == 3

\* MAX_THREADS (src/unve1ler.py:19, 15 in the source), scaled to the model's
\* catalog: the number of prober threads of one batch.
MAX_THREADS == 2

\* MAX_PLATFORMS (src/unve1ler.py:20, 40 in the source; the source catalog
\* has more entries than that), scaled to the model's catalog.
MAX_PLATFORMS == 3

\* ------------------------------------------------------------------------
\* Characters and strings
\* ------------------------------------------------------------------------

LowerAlpha == <<"a","b","c","d","e","f","g","h","i","j","k","l","m",
                "n","o","p","q","r","s","t","u","v","w","x","y","z">>

UpperAlpha == <<"A","B","C","D","E","F","G","H","I","J","K","L","M",
                "N","O","P","Q","R","S","T","U","V","W","X","Y","Z">>

Range(s) == {s[i] : i \in DOMAIN s}

LowerChars == Range(LowerAlpha)

UpperChars == Range(UpperAlpha)

DigitChars == {"0","1","2","3","4","5","6","7","8","9"}

\* The characters of the usernames the specifications enumerate: a lower-case
\* and an upper-case letter, the three separators, a blank and a character
\* that is neither a word character nor a separator.
InputChars == {"a", "B", ".", "_", "-", " ", "!"}

IndexOf(c, alpha) == CHOOSE i \in DOMAIN alpha : alpha[i] = c

\* str.upper() / str.lower() on one character.
UpperChar(c) == IF c \in LowerChars THEN UpperAlpha[IndexOf(c, LowerAlpha)] ELSE c

LowerChar(c) == IF c \in UpperChars THEN LowerAlpha[IndexOf(c, UpperAlpha)] ELSE c

Upper(s) == [i \in DOMAIN s |-> UpperChar(s[i])]

Lower(s) == [i \in DOMAIN s |-> LowerChar(s[i])]

\* str.capitalize(): first character upper-cased, the rest lower-cased.
Capitalize(s) == [i \in DOMAIN s |-> IF i = 1 THEN UpperChar(s[i]) ELSE LowerChar(s[i])]

\* str.islower() / str.isupper(): at least one cased character, and no cased
\* character of the other case.
IsLowerStr(s) ==
    /\ \E i \in DOMAIN s : s[i] \in LowerChars
    /\ \A i \in DOMAIN s : s[i] \notin UpperChars

IsUpperStr(s) ==
    /\ \E i \in DOMAIN s : s[i] \in UpperChars
    /\ \A i \in DOMAIN s : s[i] \notin LowerChars

\* The regular-expression class \w.
IsWordChar(c) == c \in LowerChars \cup UpperChars \cup DigitChars \cup {"_"}

\* The class [._\-\s] the generator splits on.
IsSeparator(c) == c \in {".", "_", "-", " "}

IsSpace(c) == c = " "

StartsWith(s, prefix) ==
    /\ Len(prefix) <= Len(s)
    /\ SubSeq(s, 1, Len(prefix)) = prefix

EndsWith(s, suffix) ==
    /\ Len(suffix) <= Len(s)
    /\ SubSeq(s, Len(s) - Len(suffix) + 1, Len(s)) = suffix

\* c in s
HasChar(s, c) == \E i \in DOMAIN s : s[i] = c

\* str.replace(c, rep) for a one-character c.
RECURSIVE Replace(_, _, _)
Replace(s, c, rep) ==
    IF s = <<>> THEN <<>>
    ELSE (IF Head(s) = c THEN rep ELSE <<Head(s)>>) \o Replace(Tail(s), c, rep)

\* str.strip()
RECURSIVE LStrip(_)
LStrip(s) == IF s # <<>> /\ IsSpace(Head(s)) THEN LStrip(Tail(s)) ELSE s

RECURSIVE RStrip(_)
RStrip(s) ==
    IF s # <<>> /\ IsSpace(s[Len(s)]) THEN RStrip(SubSeq(s, 1, Len(s) - 1)) ELSE s

Strip(s) == RStrip(LStrip(s))

\* re.split(r'[._\-\s]', s): the parts between separators, empty parts kept.
RECURSIVE SplitFrom(_, _)
SplitFrom(s, cur) ==
    IF s = <<>> THEN <<cur>>
    ELSE IF IsSeparator(Head(s)) THEN <<cur>> \o SplitFrom(Tail(s), <<>>)
    ELSE SplitFrom(Tail(s), Append(cur, Head(s)))

Split(s) == SplitFrom(s, <<>>)

\* sep.join(parts)
RECURSIVE Join(_, _)
Join(sep, parts) ==
    IF parts = <<>> THEN <<>>
    ELSE IF Len(parts) = 1 THEN parts[1]
    ELSE parts[1] \o sep \o Join(sep, Tail(parts))

\* re.sub(r'[^\w]', '', s)
CleanBase(s) == SelectSeq(s, IsWordChar)

IsUrlChar(c) == IsWordChar(c) \/ c \in {".", "-"}

\* re.sub(r'[^\w.-]', '', s)
CleanForUrl(s) == SelectSeq(s, IsUrlChar)

\* The sequence s with ys appended when cond holds.
AppendIf(cond, s, ys) == IF cond THEN s \o ys ELSE s

\* ------------------------------------------------------------------------
\* generate_username_variations
\* ------------------------------------------------------------------------

\* Steps 3 and 4: the variations built from the parts of the username.
PartVariations(username, parts) ==
    LET caps == [i \in DOMAIN parts |-> Capitalize(parts[i])]
        v1 == AppendIf(~HasChar(username, "."), <<>>, <<Join(<<".">>, parts)>>)
        v2 == AppendIf(~HasChar(username, "_"), v1, <<Join(<<"_">>, parts)>>)
        v3 == AppendIf(~HasChar(username, "-"), v2, <<Join(<<"-">>, parts)>>)
        v4 == v3 \o << Join(<<>>, parts),
                       Join(<<".">>, caps),
                       Join(<<"_">>, caps),
                       Join(<<>>, caps) >>
        v5 == AppendIf(Len(parts[1]) > 3, v4, <<parts[1]>>)
    IN  AppendIf(Len(parts) > 2, v5,
                 << parts[1] \o <<".">> \o parts[Len(parts)],
                    parts[1] \o <<"_">> \o parts[Len(parts)] >>)

\* Step 5: the separators of the username replaced by one another.
ReplacementVariations(username) ==
    LET r1 == AppendIf(HasChar(username, "."), <<>>,
                       << Replace(username, ".", <<"_">>),
                          Replace(username, ".", <<"-">>),
                          Replace(username, ".", <<>>) >>)
        r2 == AppendIf(HasChar(username, "_"), r1,
                       << Replace(username, "_", <<".">>),
                          Replace(username, "_", <<"-">>),
                          Replace(username, "_", <<>>) >>)
        r3 == AppendIf(HasChar(username, "-"), r2,
                       << Replace(username, "-", <<".">>),
                          Replace(username, "-", <<"_">>),
                          Replace(username, "-", <<>>) >>)
    IN  AppendIf(HasChar(username, " "), r3,
                 << Replace(username, " ", <<".">>),
                    Replace(username, " ", <<"_">>),
                    Replace(username, " ", <<"-">>),
                    Replace(username, " ", <<>>) >>)

\* Step 6: the case variations.
CaseVariations(username) ==
    IF IsLowerStr(username) THEN <<Upper(username), Capitalize(username)>>
    ELSE IF IsUpperStr(username) THEN <<Lower(username)>>
    ELSE <<Lower(username), Upper(username)>>

RealPrefix == <<"r","e","a","l">>

ThePrefix == <<"t","h","e">>

OfficialSuffix == <<"_","o","f","f","i","c","i","a","l">>

\* Step 7: the common prefixes and suffixes.
PatternVariations(username) ==
    LET p1 == AppendIf(~StartsWith(username, RealPrefix), <<>>, <<RealPrefix \o username>>)
        p2 == AppendIf(~StartsWith(username, ThePrefix), p1, <<ThePrefix \o username>>)
    IN  p2 \o << username \o <<"1">>,
                 username \o <<"1","2","3">>,
                 username \o OfficialSuffix >>

\* The list before step 8.
RawVariations(username) ==
    LET clean_base == CleanBase(username)
        parts == Split(username)
    IN  AppendIf(clean_base # username, <<username>>, <<clean_base>>)
        \o (IF Len(parts) > 1 THEN PartVariations(username, parts) ELSE <<>>)
        \o ReplacementVariations(username)
        \o CaseVariations(username)
        \o PatternVariations(username)

\* Whether step 8 keeps a stripped variation: non-empty, not seen before and
\* longer than two characters.
KeepVariation(clean_var, seen) ==
    /\ clean_var # <<>>
    /\ clean_var \notin seen
    /\ Len(clean_var) > 2

\* Step 8: duplicates removed, order preserved.
RECURSIVE UniqueVariations(_, _)
UniqueVariations(variations, seen) ==
    IF variations = <<>> THEN <<>>
    ELSE LET clean_var == Strip(Head(variations))
         IN  IF KeepVariation(clean_var, seen)
             THEN <<clean_var>> \o UniqueVariations(Tail(variations), seen \cup {clean_var})
             ELSE UniqueVariations(Tail(variations), seen)

generate_username_variations(username) == UniqueVariations(RawVariations(username), {})

\* ------------------------------------------------------------------------
\* The platform catalog (check_social_media), scaled down
\* ------------------------------------------------------------------------

\* The keys of the `platforms` dictionary in insertion order.  The model
\* keeps one platform of each kind: Instagram (profile-indicator subset,
\* own error phrases, own URL rule), GitHub (own error phrases), Mix (no
\* error phrases and no variation URL rule), Codechef (the 302 rule).
platforms == <<"Instagram", "GitHub", "Mix", "Codechef">>

\* The `top_platforms` list; Spotify is in it and not in the catalog.
top_platforms == <<"Instagram", "GitHub", "Spotify">>

PlatformNames == Range(platforms)

InCatalog(p) == p \in PlatformNames

\* "Then add remaining platforms until we reach MAX_PLATFORMS"
RECURSIVE AddRemaining(_, _)
AddRemaining(prioritized, rest) ==
    IF rest = <<>> THEN prioritized
    ELSE IF Head(rest) \notin Range(prioritized) /\ Len(prioritized) < MAX_PLATFORMS
         THEN AddRemaining(Append(prioritized, Head(rest)), Tail(rest))
         ELSE AddRemaining(prioritized, Tail(rest))

\* list(prioritized_platforms.items()), as the list of its keys.
platform_items ==
    LET top == SelectSeq(top_platforms, InCatalog)
    IN  IF MAX_PLATFORMS - Len(top) > 0 THEN AddRemaining(top, platforms) ELSE top

\* The URL a platform's entry of `platforms` is built from: the text before
\* and after the interpolated handle.
UrlPrefix(p) ==
    CASE p = "Instagram" -> "https://www.instagram.com/"
      [] p = "GitHub"    -> "https://github.com/"
      [] p = "Mix"       -> "https://mix.com/"
      [] p = "Codechef"  -> "https://www.codechef.com/users/"

UrlSuffix(p) == IF p = "Instagram" THEN "/" ELSE ""

MakeUrl(prefix, handle, suffix) == [prefix |-> prefix, handle |-> handle, suffix |-> suffix]

\* platforms[p] for a cleaned username.
PlatformUrl(p, clean_username) == MakeUrl(UrlPrefix(p), clean_username, UrlSuffix(p))

\* The value None where a URL is expected, and the empty string var_url
\* starts from.
None == MakeUrl("None", <<>>, "")

NoUrl == MakeUrl("", <<>>, "")

\* The if/elif chain of try_username_variations: the platforms it has a URL
\* pattern for.
HasVariationPattern(p) == p \in {"Instagram", "GitHub", "Codechef"}

\* var_url of try_username_variations.  For a platform outside the chain the
\* URL is taken from results[platform], which has no entry yet when the
\* variations are tried, so var_url stays empty.
VariationUrl(p, var, res) ==
    LET clean_var == CleanForUrl(var)
    IN  IF HasVariationPattern(p) THEN MakeUrl(UrlPrefix(p), clean_var, UrlSuffix(p))
        ELSE IF p \in DOMAIN res /\ res[p] # None
                /\ res[p].handle # <<>>
                /\ Lower(res[p].handle) = Lower(clean_var)
             THEN MakeUrl(res[p].prefix, clean_var, res[p].suffix)
             ELSE NoUrl

\* ------------------------------------------------------------------------
\* HTTP responses and their classification
\* ------------------------------------------------------------------------

\* What requests.get gives for one URL: a response, or one of the two
\* exceptions of the requests library the prober names.  A response carries
\* its status code, the phrases its final URL and its body contain (lower
\* case), and whether reading its text raises an exception that is not a
\* requests exception.
MakeResponse(exc, status_code, url_marks, text_marks, malformed) ==
    [exc |-> exc, status_code |-> status_code, url_marks |-> url_marks,
     text_marks |-> text_marks, malformed |-> malformed]

FoundPage == MakeResponse("none", "200", {}, {"followers"}, FALSE)

MissingPage == MakeResponse("none", "404", {}, {"not found"}, FALSE)

MalformedPage == MakeResponse("none", "200", {}, {}, TRUE)

TimeoutExc == MakeResponse("Timeout", "", {}, {}, FALSE)

ConnectionExc == MakeResponse("RequestException", "", {}, {}, FALSE)

\* The indicators contained in a longer phrase.
InnerPhrases(m) ==
    CASE m = "404 not found"  -> {"404", "not found"}
      [] m = "page not found" -> {"not found"}
      [] m = "accounts/login" -> {"login", "account"}
      [] m = "authwall"       -> {"auth"}
      [] OTHER                -> {}

\* needle in haystack, for a haystack given by the phrases it contains.
PhraseIn(needle, marks) == \E m \in marks : needle = m \/ needle \in InnerPhrases(m)

login_indicators ==
    {"login", "signin", "sign-in", "register", "signup", "auth",
     "authenticate", "account", "passw", "404", "not found"}

generic_error_patterns ==
    {"404", "not found", "doesn't exist", "page unavailable", "no such user"}

profile_indicators == {"followers", "following", "tweets", "posts", "photos", "profile"}

\* error_indicators of check_platform, each phrase lower-cased as the code
\* compares it.
error_indicators ==
    [p \in {"Instagram", "Twitter", "Facebook", "LinkedIn", "GitHub", "Telegram",
            "Discord", "Medium", "TikTok", "Pinterest", "Twitch", "Trello", "VSCO",
            "CodePen", "YouTube", "Reddit", "Snapchat", "Behance", "Vero",
            "Hackernoon", "HackerRank", "Gist"} |->
        CASE p = "Instagram"  -> {"accounts/login", "page not found", "sorry, this page", "isn't available"}
          [] p = "Twitter"    -> {"account doesn't exist", "user not found", "suspended", "doesn't exist"}
          [] p = "Facebook"   -> {"login/?next=", "content not found", "isn't available", "page not found"}
          [] p = "LinkedIn"   -> {"authwall", "sign up", "join linkedin", "page doesn't exist"}
          [] p = "GitHub"     -> {"404 not found", "page not found", "not available"}
          [] p = "Telegram"   -> {"join telegram", "preview channel", "/404"}
          [] p = "Discord"    -> {"404", "not found"}
          [] p = "Medium"     -> {"not found", "error", "link is broken"}
          [] p = "TikTok"     -> {"couldn't find this account", "page unavailable"}
          [] p = "Pinterest"  -> {"couldn't find that page", "page unavailable"}
          [] p = "Twitch"     -> {"sorry", "time machine", "unavailable"}
          [] p = "Trello"     -> {"page not found", "this page doesn't exist"}
          [] p = "VSCO"       -> {"404 not found", "doesn't exist", "page could not be found"}
          [] p = "CodePen"    -> {"404", "not found"}
          [] p = "YouTube"    -> {"404", "not available", "doesn't exist"}
          [] p = "Reddit"     -> {"sorry", "nobody", "goes by that name"}
          [] p = "Snapchat"   -> {"page could not be found"}
          [] p = "Behance"    -> {"sorry", "we couldn't find", "not found"}
          [] p = "Vero"       -> {"404", "not found"}
          [] p = "Hackernoon" -> {"404", "not found", "page could not be found"}
          [] p = "HackerRank" -> {"oops", "page you're looking for", "not found"}
          [] p = "Gist"       -> {"not found", "404", "doesn't exist"}]

\* error_indicators of try_username_variations: the first fourteen entries
\* and Gist.
variation_error_indicators ==
    [p \in {"Instagram", "Twitter", "Facebook", "LinkedIn", "GitHub", "Telegram",
            "Discord", "Medium", "TikTok", "Pinterest", "Twitch", "Trello", "VSCO",
            "CodePen", "Gist"} |-> error_indicators[p]]

\* A check of the final URL that sees no indicator.
RedirectNeverSeen(response) == FALSE

redirected_to_login(response) ==
    \E indicator \in login_indicators : PhraseIn(indicator, response.url_marks)

has_error_indicators(platform, response, indicators) ==
    IF platform \in DOMAIN indicators
    THEN \E indicator \in indicators[platform] : PhraseIn(indicator, response.text_marks)
    ELSE \E pattern \in generic_error_patterns : PhraseIn(pattern, response.text_marks)

\* profile_exists as both probers compute it, for the table of error
\* indicators of the prober.
ProfileExists(platform, response, indicators) ==
    IF platform = "Instagram"
       /\ (PhraseIn("accounts/login", response.url_marks) \/ PhraseIn("login", response.url_marks))
    THEN FALSE
    ELSE IF platform = "Facebook"
       /\ (PhraseIn("login", response.url_marks) \/ PhraseIn("/login/", response.url_marks))
    THEN FALSE
    ELSE IF platform = "LinkedIn"
       /\ (PhraseIn("authwall", response.url_marks) \/ PhraseIn("login", response.url_marks))
    THEN FALSE
    ELSE IF platform = "Codechef" /\ response.status_code = "302"
    THEN TRUE
    ELSE LET default == /\ response.status_code = "200"
                        /\ ~has_error_indicators(platform, response, indicators)
                        /\ ~redirected_to_login(response)
         IN  IF default /\ platform \in {"Twitter", "Instagram", "Facebook"}
             THEN \E indicator \in profile_indicators : PhraseIn(indicator, response.text_marks)
             ELSE default

\* profile_exists of check_platform.
PrimaryProfileExists(platform, response) == ProfileExists(platform, response, error_indicators)

\* profile_exists of try_username_variations.
VariationProfileExists(platform, response) ==
    ProfileExists(platform, response, variation_error_indicators)

\* ------------------------------------------------------------------------
\* The network
\* ------------------------------------------------------------------------

\* How the site of one platform answers: every handle exists, none does,
\* only the handles ending in 1 exist, the same with a time-out on the
\* handles with a prefix, or the site times out, refuses the connection or
\* sends a response whose text cannot be read.
Modes == <<"present", "numbered", "flaky", "absent", "timeout", "refused", "malformed">>

IsNumbered(handle) == EndsWith(handle, <<"1">>)

IsPrefixed(handle) == StartsWith(handle, RealPrefix) \/ StartsWith(handle, ThePrefix)

\* sub in s
Contains(s, sub) ==
    \E i \in 0..(Len(s) - Len(sub)) : SubSeq(s, i + 1, i + Len(sub)) = sub

\* The login indicators a URL contains because of its handle.  Of the
\* indicators only "404" can be written with the characters of the model's
\* handles; the URL templates of the catalog contain none.
UrlMarks(url) == IF Contains(url.handle, <<"4", "0", "4">>) THEN {"404"} ELSE {}

\* A response to a GET that was not redirected: response.url is the URL
\* requested.
AtUrl(response, url) ==
    IF response.exc = "none"
    THEN [response EXCEPT !.url_marks = @ \cup UrlMarks(url)]
    ELSE response

\* The answer of a site to a GET of a URL: a function of the URL.
Respond(mode, url) ==
    AtUrl(CASE mode = "present"   -> FoundPage
            [] mode = "absent"    -> MissingPage
            [] mode = "numbered"  -> IF IsNumbered(url.handle) THEN FoundPage ELSE MissingPage
            [] mode = "flaky"     -> IF IsPrefixed(url.handle) THEN TimeoutExc
                                     ELSE IF IsNumbered(url.handle) THEN FoundPage
                                     ELSE MissingPage
            [] mode = "timeout"   -> TimeoutExc
            [] mode = "refused"   -> ConnectionExc
            [] mode = "malformed" -> MalformedPage,
          url)

\* ------------------------------------------------------------------------
\* State
\* ------------------------------------------------------------------------

\* The /search requests served at the same time, one run each.
Runs == {1, 2}

\* The usernames the requests carry: empty, blank, shorter than three
\* characters, one with a character the URL cleaning removes, a plain one,
\* and one that is a login indicator.
RunUsernames ==
    { <<>>, <<" ">>, <<"a", "B">>, <<"a", "!", "a">>, <<"a", "a", "a">>, <<"4", "0", "4">> }

VARIABLES
    gen_pc,              \* generator: "off", "input" or "returned"
    gen_username,        \* generator: the argument
    gen_variations,      \* generator: the returned list
    pc,                  \* per run: where search / check_social_media stands
    raw_username,        \* per run: the username field of the request
    username,            \* per run: the argument of check_social_media
    username_variations, \* per run: generate_username_variations(username)
    clean_username,      \* per run: the cleaned username
    next_start,          \* per run: index in platform_items of the next thread to start
    join_idx,            \* per run: index in platform_items of the next thread to join
    thread,              \* per run and platform: the check_platform thread
    results,             \* per run: the results dictionary
    platform_stats,      \* per run: the platform_stats dictionary
    stats_lock,          \* per run: "free" or the platform whose thread holds it
    gets,                \* per run and platform: the URLs requested so far
    world,               \* per platform: how its site answers
    overtaken,           \* per run: a thread has ended before one started earlier
    image_link,          \* per run: the image_url field of the request
    reply,               \* per run: what the route answers
    cls_pc,              \* classifier: "off", "input" or "classified"
    cls_platform,        \* classifier: the platform
    cls_response,        \* classifier: the response
    cls_verdict,         \* classifier: profile_exists of both probers
    enr_pc,              \* enrich: "off", "call" or "returned"
    enr_args,            \* enrich: the arguments and the answer of idcrawl.com
    enr_original,        \* enrich: the dictionary original_results
    enr_heap,            \* enrich: the objects its entries refer to
    enr_before,          \* enrich: both, as they were at the call
    enr_result,          \* enrich: what is returned
    pf_pc,               \* people finder: "off", "first", "second", "summary" or "returned"
    pf_username,         \* people finder: the username searched
    pf_exists,           \* people finder: what each site answers for each handle
    pf_idx,              \* people finder: the position in the list of the pass
    pf_profiles,         \* people finder: results["profiles"]
    pf_counts,           \* people finder: found_count and the other counters
    pf_gets,             \* people finder: the requests sent so far
    pf_summary,          \* people finder: results["confidence"] and the summary's count
    uc_pc,               \* username checker: "off", "input" or "returned"
    uc_site,             \* username checker: site_name
    uc_page,             \* username checker: what the GET meets
    uc_result            \* username checker: the IdcrawlSiteResult

vars == << gen_pc, gen_username, gen_variations, pc, raw_username, username,
           username_variations, clean_username, next_start, join_idx, thread,
           results, platform_stats, stats_lock, gets, world, overtaken, image_link,
           reply, cls_pc, cls_platform, cls_response, cls_verdict,
           enr_pc, enr_args, enr_original, enr_heap, enr_before, enr_result,
           pf_pc, pf_username, pf_exists, pf_idx, pf_profiles, pf_counts, pf_gets,
           pf_summary,
           uc_pc, uc_site, uc_page, uc_result >>

genVars == << gen_pc, gen_username, gen_variations >>

clsVars == << cls_pc, cls_platform, cls_response, cls_verdict >>

enrVars == << enr_pc, enr_args, enr_original, enr_heap, enr_before, enr_result >>

pfVars == << pf_pc, pf_username, pf_exists, pf_idx, pf_profiles, pf_counts, pf_gets,
            pf_summary >>

ucVars == << uc_pc, uc_site, uc_page, uc_result >>

\* The variables of the functions that are called on their own.
aloneVars == << clsVars, enrVars, pfVars, ucVars >>

runVars == << pc, raw_username, username, username_variations, clean_username,
              next_start, join_idx, thread, results, platform_stats, stats_lock,
              gets, world, overtaken, image_link, reply >>

EmptyMap == [x \in {} |-> 0]

\* A dictionary rebuilt with the one entry instead of updated.
PutLosingOthers(d, k, v) == (k :> v)

\* d[k] = v
Put(d, k, v) == (k :> v) @@ d

NoResponse == MakeResponse("none", "", {}, {}, FALSE)

\* A thread and its local variables.
MakeThread(at, idx, response, exists, url) ==
    [pc |-> at, idx |-> idx, response |-> response, exists |-> exists, url |-> url]

IdleThread == MakeThread("idle", 0, NoResponse, FALSE, NoUrl)

\* A thread that returned (its locals are gone).
FinishedThread == MakeThread("finished", 0, NoResponse, FALSE, NoUrl)

\* A thread ended by an exception nothing caught.
DeadThread == MakeThread("died", 0, NoResponse, FALSE, NoUrl)

\* An entry of platform_stats: the keys it has and their values.
MakeStats(keys, status_code, response_time, validated, variation_used) ==
    [keys |-> keys, status_code |-> status_code, response_time |-> response_time,
     validated |-> validated, variation_used |-> variation_used]

\* reverse_image_urls = None
NoLinks == EmptyMap

\* image_link is None or empty.
NoImage == <<>>

NoReply ==
    [status |-> "none", http |-> 0, found_profiles |-> EmptyMap, platforms_checked |-> 0,
     profiles_found |-> 0, timeouts |-> 0, errors |-> 0, reverse_image_urls |-> NoLinks]

\* The state before any request: runs `active` have a request pending.
InitRuns(active, names) ==
    /\ pc = [r \in Runs |-> IF r \in active THEN "request" ELSE "off"]
    /\ raw_username \in [Runs -> names]
    /\ \A r \in Runs \ active : raw_username[r] = <<>>
    /\ username = [r \in Runs |-> <<>>]
    /\ username_variations = [r \in Runs |-> <<>>]
    /\ clean_username = [r \in Runs |-> <<>>]
    /\ next_start = [r \in Runs |-> 1]
    /\ join_idx = [r \in Runs |-> 1]
    /\ thread = [r \in Runs |-> [p \in PlatformNames |-> IdleThread]]
    /\ results = [r \in Runs |-> EmptyMap]
    /\ platform_stats = [r \in Runs |-> EmptyMap]
    /\ stats_lock = [r \in Runs |-> "free"]
    /\ gets = [r \in Runs |-> [p \in PlatformNames |-> <<>>]]
    /\ overtaken = [r \in Runs |-> FALSE]
    /\ reply = [r \in Runs |-> NoReply]

GenOff ==
    /\ gen_pc = "off"
    /\ gen_username = <<>>
    /\ gen_variations = <<>>

\* The verdicts before the classification.
NoVerdict == [primary |-> FALSE, variation |-> FALSE]

ClsOff ==
    /\ cls_pc = "off"
    /\ cls_platform = "Mix"
    /\ cls_response = NoResponse
    /\ cls_verdict = NoVerdict

\* A top-level dictionary of results: its keys, its own values, and where
\* its 'warnings' entry refers to: the list of the heap, or a new list.
MakeTop(keys, confidence, warnings_at, new_warnings, image_metadata) ==
    [keys |-> keys, confidence |-> confidence, warnings_at |-> warnings_at,
     new_warnings |-> new_warnings, image_metadata |-> image_metadata]

\* The objects the entries of original_results refer to: the dictionary
\* 'profiles', the list 'warnings' and the dictionary 'discovered_data' with
\* its lists.
MakeHeap(profiles, warnings, names, locations, occupations) ==
    [profiles |-> profiles, warnings |-> warnings,
     discovered_data |-> [possible_real_names |-> names,
                          possible_locations |-> locations,
                          possible_occupations |-> occupations]]

\* What search_username_on_idcrawl / search_person_on_idcrawl returns.
MakeAnswer(success, requires_captcha, has_profiles, profiles, name, bio, image_metadata) ==
    [success |-> success, requires_captcha |-> requires_captcha,
     has_profiles |-> has_profiles, profiles |-> profiles, name |-> name, bio |-> bio,
     image_metadata |-> image_metadata]

NoAnswer == MakeAnswer(FALSE, FALSE, FALSE, EmptyMap, "", FALSE, FALSE)

NoTop == MakeTop({}, 0, "heap", <<>>, FALSE)

NoHeap == MakeHeap(EmptyMap, <<>>, <<>>, <<>>, <<>>)

EnrOff ==
    /\ enr_pc = "off"
    /\ enr_args = [skip_idcrawl |-> FALSE, criteria |-> "none", answer |-> NoAnswer]
    /\ enr_original = NoTop
    /\ enr_heap = NoHeap
    /\ enr_before = << NoTop, NoHeap >>
    /\ enr_result = [returned |-> "none", top |-> NoTop]

\* found_count, tried_variations_count, variation_found_count and
\* total_confidence (in hundredths) of search_by_username.
MakeCounts(found_count, tried_variations_count, variation_found_count, total_confidence) ==
    [found_count |-> found_count, tried_variations_count |-> tried_variations_count,
     variation_found_count |-> variation_found_count, total_confidence |-> total_confidence]

NoCounts == MakeCounts(0, 0, 0, 0)

\* results["confidence"] (in ten-thousandths) and the number of profiles the
\* summary announces; the results start with confidence 0.0 and summary "".
MakeSummary(confidence, found) == [confidence |-> confidence, found |-> found]

NoSummary == MakeSummary(0, 0)

PfOff ==
    /\ pf_pc = "off"
    /\ pf_username = <<>>
    /\ pf_exists = EmptyMap
    /\ pf_idx = 1
    /\ pf_profiles = EmptyMap
    /\ pf_counts = NoCounts
    /\ pf_gets = <<>>
    /\ pf_summary = NoSummary

\* The content of a page as analyze_response sees it: whether it has an
\* error phrase, what the user pattern matches, whether the other patterns
\* match, how many success elements it has (3: three or more) and whether
\* the username occurs in it; `status` is how the GET ends.
MakePage(status, error_phrase, user_match, full_name, bio, followers, elements,
         username_in_content) ==
    [status |-> status, error_phrase |-> error_phrase, user_match |-> user_match,
     full_name |-> full_name, bio |-> bio, followers |-> followers,
     elements |-> elements, username_in_content |-> username_in_content]

NoPage == MakePage("404", FALSE, "none", FALSE, FALSE, FALSE, 0, FALSE)

\* The validator of IdcrawlSiteResult.confidence (in tenths).
check_confidence(v) == IF v < 0 THEN 0 ELSE IF v > 10 THEN 10 ELSE v

\* IdcrawlSiteResult(site_name=..., url_checked=..., found=False,
\* username_used=...): the confidence is the default.
NewSiteResult == [found |-> FALSE, confidence |-> check_confidence(0), error |-> "none"]

UcOff ==
    /\ uc_pc = "off"
    /\ uc_site = "Other"
    /\ uc_page = NoPage
    /\ uc_result = NewSiteResult

\* No function is called on its own.
AloneOff == ClsOff /\ EnrOff /\ PfOff /\ UcOff

\* The place of a platform in the catalog.
CatalogIndex(p) == CHOOSE i \in DOMAIN platforms : platforms[i] = p

\* The sites a request meets: each platform answers in each of the ways in
\* one of them, next to neighbours that answer in other ways.
Worlds ==
    { [p \in PlatformNames |-> Modes[((k + stride * CatalogIndex(p)) % Len(Modes)) + 1]] :
        k \in 0..(Len(Modes) - 1), stride \in {1, 3} }

\* One request.
Init ==
    /\ GenOff
    /\ InitRuns({1}, RunUsernames)
    /\ image_link = [r \in Runs |-> NoImage]
    /\ world \in Worlds
    /\ AloneOff

\* The sites of the specification of two requests.
ConcWorld ==
    [p \in PlatformNames |->
        CASE p = "Instagram" -> "numbered"
          [] p = "GitHub"    -> "timeout"
          [] p = "Mix"       -> "malformed"
          [] p = "Codechef"  -> "refused"]

\* The usernames of the two requests.
ConcUsernames == { <<"a", "B">>, <<"B", "a">> }

\* The usernames of the specification with fairness.
LiveUsernames == { <<>>, <<"a", "B">> }

\* One request, empty or not.
InitLive ==
    /\ GenOff
    /\ InitRuns({1}, LiveUsernames)
    /\ image_link = [r \in Runs |-> NoImage]
    /\ world \in Worlds
    /\ AloneOff

\* Usernames with characters the URL cleaning removes: one made of such a
\* character only, one with three word characters around it.
UncleanUsernames == { <<>>, <<"!">>, <<"a", "!", "a", "a">> }

\* One request for such a username.
InitUnclean ==
    /\ GenOff
    /\ InitRuns({1}, UncleanUsernames)
    /\ image_link = [r \in Runs |-> NoImage]
    /\ world \in Worlds
    /\ AloneOff

\* The image URL of the two requests.
ConcImage == <<"h", ":", "/", "a", " ", "b", ".", "p", "n", "g">>

\* Two requests at the same time, for different usernames and the same
\* image.
InitConc ==
    /\ GenOff
    /\ InitRuns(Runs, ConcUsernames)
    /\ raw_username[1] = <<"a", "B">>
    /\ raw_username[2] = <<"B", "a">>
    /\ image_link = [r \in Runs |-> ConcImage]
    /\ world = ConcWorld
    /\ AloneOff

\* Usernames longer than MaxLen the generator is also called with.
GenSeeds ==
    { <<"a", "a", "a", "a", ".", "B">>,
      <<"a", "_", "B", "-", "a">>,
      <<"r", "e", "a", "l", "a">>,
      <<"t", "h", "e", "B", "_", "a">>,
      <<" ", "a", "B", "a", " ">> }

GenUsernames == UNION {[1..n -> InputChars] : n \in 0..MaxLen} \cup GenSeeds

\* A call of generate_username_variations alone.
InitGen ==
    /\ gen_pc = "input"
    /\ gen_username \in GenUsernames
    /\ gen_variations = <<>>
    /\ InitRuns({}, {<<>>})
    /\ image_link = [r \in Runs |-> NoImage]
    /\ world = ConcWorld
    /\ AloneOff

\* ------------------------------------------------------------------------
\* search (src/app.py) and the main thread of check_social_media
\* ------------------------------------------------------------------------

\* The username taken from the request without strip().
RequestUsernameUnstripped(raw) == raw

\* data.get('username', '').strip()
RequestUsername(raw) == Strip(raw)

\* One results dictionary of the module, shared by all runs.
ResultsShared(r) == 1

\* The dictionary a run's probers are given as `results`: the one the run
\* created.
ResultsOf(r) == r

\* The dictionary and the lock a run's probers are given as
\* `platform_stats` and `stats_lock`.
StatsOf(r) == r

Min(a, b) == IF a < b THEN a ELSE b

\* A slice one element too long.
BatchEndWide(first) == Min(first + MAX_THREADS, Len(platform_items))

\* The last index of platform_items[i:i+MAX_THREADS], for the 1-based index
\* `first` of its first element.
BatchEnd(first) == Min(first + MAX_THREADS - 1, Len(platform_items))

\* The batch (0, 1, ...) the platform at index i of platform_items is in.
BatchOf(i) == (i - 1) \div MAX_THREADS

\* A join that does not wait for the thread.
JoinWithoutWaiting(t) == TRUE

\* A join that returns only for a thread whose function returned.
JoinableAfterReturnOnly(t) == t.pc = "finished"

\* thread.join() returns once the thread has terminated.
Joinable(t) == t.pc \in {"finished", "died"}

\* search: the username is stripped; an empty one is answered 400 and
\* check_social_media is not called.  Otherwise check_social_media starts:
\* variations, cleaned username, empty dictionaries, new lock.
Search(r) ==
    /\ pc[r] = "request"
    /\ LET name == RequestUsername(raw_username[r])
       IN  IF name = <<>>
           THEN /\ pc' = [pc EXCEPT ![r] = "rejected"]
                /\ reply' = [reply EXCEPT ![r] = [NoReply EXCEPT !.status = "error", !.http = 400]]
                /\ UNCHANGED << username, username_variations, clean_username,
                                results, platform_stats, stats_lock >>
           ELSE /\ pc' = [pc EXCEPT ![r] = "spawn"]
                /\ username' = [username EXCEPT ![r] = name]
                /\ username_variations' =
                       [username_variations EXCEPT ![r] = generate_username_variations(name)]
                /\ clean_username' = [clean_username EXCEPT ![r] = CleanForUrl(name)]
                /\ results' = [results EXCEPT ![r] = EmptyMap]
                /\ platform_stats' = [platform_stats EXCEPT ![r] = EmptyMap]
                /\ stats_lock' = [stats_lock EXCEPT ![r] = "free"]
                /\ UNCHANGED reply
    /\ UNCHANGED << raw_username, next_start, join_idx, thread, gets, world, overtaken >>
    /\ UNCHANGED << genVars, aloneVars, image_link >>

\* thread.start() for the next platform of the batch.
StartThread(r) ==
    /\ pc[r] = "spawn"
    /\ LET i == next_start[r]
           p == platform_items[i]
       IN  /\ thread' = [thread EXCEPT ![r][p] =
                  MakeThread("get", 0, NoResponse, FALSE, PlatformUrl(p, clean_username[r]))]
           /\ next_start' = [next_start EXCEPT ![r] = i + 1]
           /\ pc' = [pc EXCEPT ![r] = IF i + 1 > BatchEnd(join_idx[r]) THEN "join" ELSE "spawn"]
    /\ UNCHANGED << raw_username, username, username_variations, clean_username,
                    join_idx, results, platform_stats, stats_lock, gets, world,
                    overtaken, reply >>
    /\ UNCHANGED << genVars, aloneVars, image_link >>

\* thread.join() for the next thread of the batch; after the last one the
\* next batch starts, or the loop ends.
JoinThread(r) ==
    /\ pc[r] = "join"
    /\ LET j == join_idx[r]
       IN  /\ Joinable(thread[r][platform_items[j]])
           /\ join_idx' = [join_idx EXCEPT ![r] = j + 1]
           /\ pc' = [pc EXCEPT ![r] =
                  IF j + 1 < next_start[r] THEN "join"
                  ELSE IF next_start[r] <= Len(platform_items) THEN "spawn"
                  ELSE "stats"]
    /\ UNCHANGED << raw_username, username, username_variations, clean_username,
                    next_start, thread, results, platform_stats, stats_lock, gets,
                    world, overtaken, reply >>
    /\ UNCHANGED << genVars, aloneVars, image_link >>

\* The entries counted whatever their value.
FoundCountAll(res) == Cardinality(DOMAIN res)

\* sum(1 for value in results.values() if value is not None)
FoundCount(res) == Cardinality({p \in DOMAIN res : res[p] # None})

\* The entries of either failure counted under both names.
StatusCountAnyFailure(pstats, code) ==
    Cardinality({p \in DOMAIN pstats :
                    "status_code" \in pstats[p].keys
                    /\ pstats[p].status_code \in {"timeout", "error"}})

\* sum(1 for platform, stats in platform_stats.items()
\*     if stats.get('status_code') == code)
StatusCount(pstats, code) ==
    Cardinality({p \in DOMAIN pstats :
                    "status_code" \in pstats[p].keys /\ pstats[p].status_code = code})

\* found_profiles: the entries of results with a URL.
FoundProfiles(res) ==
    LET found == {p \in DOMAIN res : res[p] # None /\ res[p] # NoUrl}
    IN  [p \in found |-> res[p]]

\* urllib.parse.quote_plus on one character: letters, digits and _ . - are
\* kept, a blank becomes +, any other character its percent escape.
QuotePlusChar(c) ==
    CASE c \in LowerChars \cup UpperChars \cup DigitChars \cup {"_", ".", "-"} -> <<c>>
      [] c = " " -> <<"+">>
      [] c = ":" -> <<"%", "3", "A">>
      [] c = "/" -> <<"%", "2", "F">>
      [] c = "!" -> <<"%", "2", "1">>

RECURSIVE quote_plus(_)
quote_plus(s) == IF s = <<>> THEN <<>> ELSE QuotePlusChar(Head(s)) \o quote_plus(Tail(s))

\* What the GET of validate_image_url meets: the image, a redirect to
\* another URL that answers 200, a 404, or a time-out.
ImageAnswers == {"ok", "moved", "missing", "timeout"}

\* The URL a redirected image request ends at.
MovedImage == <<"h", ":", "/", "c", "d", "n", "/", "z", ".", "p", "n", "g">>

\* validate_image_url, for a URL that names no host of IMAGE_HOSTS:
\* direct_url is the URL itself, replaced by response.url when the request
\* is answered 200.
validate_image_url(url, answer) ==
    [valid |-> answer \in {"ok", "moved"},
     direct_url |-> IF answer = "moved" THEN MovedImage ELSE url]

\* The search engines and the URL each link starts with.
EnginePrefix ==
    [e \in {"Google", "Bing", "Yandex", "Baidu", "TinEye"} |->
        CASE e = "Google" -> "https://lens.google.com/uploadbyurl?url="
          [] e = "Bing"   -> "https://www.bing.com/images/search?view=detailv2&iss=sbi&form=SBIVSP&sbisrc=UrlPaste&q=imgurl:"
          [] e = "Yandex" -> "https://yandex.com/images/search?source=collections&&url="
          [] e = "Baidu"  -> "https://graph.baidu.com/details?isfromtusoupc=1&tn=pc&carousel=0&image="
          [] e = "TinEye" -> "https://tineye.com/search?url="]

\* reverse_image_urls of check_social_media: None without an image,
\* otherwise one link per engine for the encoded direct URL of the
\* validation.
ReverseImageUrls(link, answer) ==
    IF link = NoImage THEN NoLinks
    ELSE LET direct_url == validate_image_url(link, answer).direct_url
         IN  [e \in DOMAIN EnginePrefix |->
                 [prefix |-> EnginePrefix[e], image |-> quote_plus(direct_url),
                  suffix |-> IF e = "Yandex" THEN "&rpt=imageview" ELSE ""]]

\* The image is validated, the statistics are compiled and
\* check_social_media returns.
CompileStats(r) ==
    /\ pc[r] = "stats"
    /\ pc' = [pc EXCEPT ![r] = "done"]
    /\ \E answer \in IF image_link[r] = NoImage THEN {"none"} ELSE ImageAnswers :
        reply' = [reply EXCEPT ![r] =
           [status |-> "success", http |-> 200,
            found_profiles |-> FoundProfiles(results[ResultsOf(r)]),
            platforms_checked |-> Len(platforms),
            profiles_found |-> FoundCount(results[ResultsOf(r)]),
            timeouts |-> StatusCount(platform_stats[StatsOf(r)], "timeout"),
            errors |-> StatusCount(platform_stats[StatsOf(r)], "error"),
            reverse_image_urls |-> ReverseImageUrls(image_link[r], answer)]]
    /\ UNCHANGED << raw_username, username, username_variations, clean_username,
                    next_start, join_idx, thread, results, platform_stats, stats_lock,
                    gets, world, overtaken >>
    /\ UNCHANGED << genVars, aloneVars, image_link >>

\* ------------------------------------------------------------------------
\* check_platform and try_username_variations: one thread per platform
\* ------------------------------------------------------------------------

\* The index of a platform in platform_items.
ItemIndex(p) == CHOOSE i \in DOMAIN platform_items : platform_items[i] = p

\* The thread of platform p ends while a thread started before it runs.
Overtakes(r, p) ==
    \E q \in Range(platform_items) :
        /\ ItemIndex(q) < ItemIndex(p)
        /\ thread[r][q].pc \notin {"idle", "finished", "died"}

\* What is left unchanged by every step of a prober thread.
ThreadFrame ==
    /\ UNCHANGED << pc, raw_username, username, username_variations, clean_username,
                    next_start, join_idx, reply >>
    /\ UNCHANGED << genVars, aloneVars, image_link >>

\* The answer to a GET of url, for the way the site answers.
Fetch(mode, url) == Respond(mode, url)

\* The except clauses without the one for Timeout, and a second clause that
\* names ConnectionError only.
HandlerWithoutTimeout(exc) == IF exc = "RequestException" THEN "error" ELSE "uncaught"

\* The except clauses of check_platform: Timeout, then RequestException.
\* An exception of another class leaves the function and ends the thread.
Handler(exc) ==
    CASE exc = "Timeout"          -> "timeout"
      [] exc = "RequestException" -> "error"
      [] OTHER                    -> "uncaught"

\* An exception of the primary request handled as the loop of
\* try_username_variations handles one: the variations are tried.
RaiseIntoVariations(t, exc) == [t EXCEPT !.pc = "variations", !.idx = 2]

\* The thread after an exception inside the try block of check_platform.
Raise(t, exc) == IF Handler(exc) = "uncaught" THEN DeadThread ELSE [t EXCEPT !.pc = Handler(exc)]

\* requests.get(url, ...) of check_platform.  Timeout and RequestException
\* lead to their handlers, a response to the first block under the lock.
Get(r, p) ==
    /\ thread[r][p].pc = "get"
    /\ LET response == Fetch(world[p], thread[r][p].url)
       IN  /\ thread' = [thread EXCEPT ![r][p] =
                  IF response.exc = "none"
                  THEN [@ EXCEPT !.pc = "store", !.response = response]
                  ELSE Raise(@, response.exc)]
           /\ overtaken' = [overtaken EXCEPT ![r] =
                  @ \/ (response.exc # "none" /\ Handler(response.exc) = "uncaught"
                          /\ Overtakes(r, p))]
    /\ gets' = [gets EXCEPT ![r][p] = Append(@, thread[r][p].url)]
    /\ UNCHANGED << results, platform_stats, stats_lock, world >>
    /\ ThreadFrame

\* The places where a thread waits for stats_lock.
LockWaits == {"store", "validated", "var_stats", "timeout", "error"}

\* The place of a thread inside the block it waited for.
Locked(at) ==
    CASE at = "store"     -> "store_locked"
      [] at = "validated" -> "validated_locked"
      [] at = "var_stats" -> "var_stats_locked"
      [] at = "timeout"   -> "timeout_locked"
      [] at = "error"     -> "error_locked"

\* `with stats_lock:` is entered.
Acquire(r, p) ==
    /\ thread[r][p].pc \in LockWaits
    /\ stats_lock[StatsOf(r)] = "free"
    /\ stats_lock' = [stats_lock EXCEPT ![StatsOf(r)] = p]
    /\ thread' = [thread EXCEPT ![r][p].pc = Locked(@)]
    /\ UNCHANGED << results, platform_stats, gets, world, overtaken >>
    /\ ThreadFrame

\* The exception raised by reading response.text, if any: not one of the
\* requests library.
HandlingException(response) == IF response.malformed THEN "Exception" ELSE "none"

\* The response metadata, response.text included, is stored and the lock
\* released; then the response is classified.  When reading the text
\* raises, nothing is stored and the exception leaves the block, which
\* releases the lock.
StoreResponse(r, p) ==
    /\ thread[r][p].pc = "store_locked"
    /\ LET exc == HandlingException(thread[r][p].response)
       IN  IF exc = "none"
           THEN /\ platform_stats' = [platform_stats EXCEPT ![StatsOf(r)] =
                       Put(@, p, MakeStats({"response_time", "status_code", "final_url",
                                            "response_text"},
                                           thread[r][p].response.status_code, "elapsed",
                                           FALSE, <<>>))]
                /\ thread' = [thread EXCEPT ![r][p] =
                       [@ EXCEPT !.pc = "validated",
                                 !.exists = PrimaryProfileExists(p, thread[r][p].response)]]
                /\ UNCHANGED overtaken
           ELSE /\ thread' = [thread EXCEPT ![r][p] = Raise(@, exc)]
                /\ overtaken' = [overtaken EXCEPT ![r] =
                       @ \/ (Handler(exc) = "uncaught" /\ Overtakes(r, p))]
                /\ UNCHANGED platform_stats
    /\ stats_lock' = [stats_lock EXCEPT ![StatsOf(r)] = "free"]
    /\ UNCHANGED << results, gets, world >>
    /\ ThreadFrame

\* 'validated' and 'variation_used' are added to the entry and the lock
\* released.
StoreValidation(r, p) ==
    /\ thread[r][p].pc = "validated_locked"
    /\ platform_stats' = [platform_stats EXCEPT ![StatsOf(r)][p] =
           [@ EXCEPT !.keys = @ \cup {"validated", "variation_used"},
                     !.validated = thread[r][p].exists,
                     !.variation_used = clean_username[r]]]
    /\ stats_lock' = [stats_lock EXCEPT ![StatsOf(r)] = "free"]
    /\ thread' = [thread EXCEPT ![r][p].pc = "decide"]
    /\ UNCHANGED << results, gets, world, overtaken >>
    /\ ThreadFrame

\* A found profile is recorded and the thread returns; otherwise the
\* variations are tried when there are any.
Decide(r, p) ==
    /\ thread[r][p].pc = "decide"
    /\ IF thread[r][p].exists
       THEN /\ results' = [results EXCEPT ![ResultsOf(r)] = Put(@, p, thread[r][p].url)]
            /\ thread' = [thread EXCEPT ![r][p] = FinishedThread]
            /\ overtaken' = [overtaken EXCEPT ![r] = @ \/ Overtakes(r, p)]
       ELSE IF username_variations[r] # <<>>
       THEN /\ thread' = [thread EXCEPT ![r][p] = [@ EXCEPT !.pc = "variations", !.idx = 2]]
            /\ UNCHANGED << results, overtaken >>
       ELSE /\ results' = [results EXCEPT ![ResultsOf(r)] = Put(@, p, None)]
            /\ thread' = [thread EXCEPT ![r][p] = FinishedThread]
            /\ overtaken' = [overtaken EXCEPT ![r] = @ \/ Overtakes(r, p)]
    /\ UNCHANGED << platform_stats, stats_lock, gets, world >>
    /\ ThreadFrame

\* The indexes from `from` on of the variations a URL can be built for.
Candidates(r, p, from) ==
    {j \in from..Len(username_variations[r]) :
        VariationUrl(p, username_variations[r][j], results[ResultsOf(r)]) # NoUrl}

\* One turn of the loop of try_username_variations: the variations without
\* a URL are skipped, the next one is requested and classified.  Any
\* exception moves on to the next variation.  After the last variation the
\* function returns False and check_platform records None.
TryVariation(r, p) ==
    /\ thread[r][p].pc = "variations"
    /\ LET candidates == Candidates(r, p, thread[r][p].idx)
       IN  IF candidates = {}
           THEN /\ results' = [results EXCEPT ![ResultsOf(r)] = Put(@, p, None)]
                /\ thread' = [thread EXCEPT ![r][p] = FinishedThread]
                /\ overtaken' = [overtaken EXCEPT ![r] = @ \/ Overtakes(r, p)]
                /\ UNCHANGED gets
           ELSE LET j == CHOOSE k \in candidates : \A m \in candidates : k <= m
                    var_url == VariationUrl(p, username_variations[r][j], results[ResultsOf(r)])
                    response == Fetch(world[p], var_url)
                    found == /\ response.exc = "none"
                             /\ HandlingException(response) = "none"
                             /\ VariationProfileExists(p, response)
                IN  /\ gets' = [gets EXCEPT ![r][p] = Append(@, var_url)]
                    /\ UNCHANGED overtaken
                    /\ IF found
                       THEN /\ results' = [results EXCEPT ![ResultsOf(r)] = Put(@, p, var_url)]
                            /\ thread' = [thread EXCEPT ![r][p] =
                                   [@ EXCEPT !.pc = "var_stats", !.idx = j,
                                             !.response = response, !.url = var_url]]
                       ELSE /\ thread' = [thread EXCEPT ![r][p].idx = j + 1]
                            /\ UNCHANGED results
    /\ UNCHANGED << platform_stats, stats_lock, world >>
    /\ ThreadFrame

\* The entry of a profile found with a variation replaces the platform's
\* entry; the lock is released and both functions return True.
StoreVariation(r, p) ==
    /\ thread[r][p].pc = "var_stats_locked"
    /\ platform_stats' = [platform_stats EXCEPT ![StatsOf(r)] =
           Put(@, p, MakeStats({"response_time", "status_code", "variation_used",
                                "validated", "final_url", "response_text"},
                               thread[r][p].response.status_code, "elapsed", TRUE,
                               username_variations[r][thread[r][p].idx]))]
    /\ stats_lock' = [stats_lock EXCEPT ![StatsOf(r)] = "free"]
    /\ thread' = [thread EXCEPT ![r][p] = FinishedThread]
    /\ overtaken' = [overtaken EXCEPT ![r] = @ \/ Overtakes(r, p)]
    /\ UNCHANGED << results, gets, world >>
    /\ ThreadFrame

\* Both handlers storing the time that passed since the request.
FailureStatsElapsed(at) ==
    IF at = "timeout_locked"
    THEN MakeStats({"response_time", "status_code"}, "timeout", "elapsed", FALSE, <<>>)
    ELSE MakeStats({"response_time", "status_code", "error"}, "error", "elapsed", FALSE, <<>>)

\* The entry a handler stores: for Timeout the response time is
\* TIMEOUT_SECONDS, for RequestException the time that passed, with the
\* message of the exception under 'error'.
FailureStats(at) ==
    IF at = "timeout_locked"
    THEN MakeStats({"response_time", "status_code"}, "timeout", "TIMEOUT_SECONDS", FALSE, <<>>)
    ELSE MakeStats({"response_time", "status_code", "error"}, "error", "elapsed", FALSE, <<>>)

\* The handlers of Timeout and RequestException store their entry under the
\* lock.
StoreFailure(r, p) ==
    /\ thread[r][p].pc \in {"timeout_locked", "error_locked"}
    /\ platform_stats' = [platform_stats EXCEPT ![StatsOf(r)] =
           Put(@, p, FailureStats(thread[r][p].pc))]
    /\ stats_lock' = [stats_lock EXCEPT ![StatsOf(r)] = "free"]
    /\ thread' = [thread EXCEPT ![r][p].pc = "set_none"]
    /\ UNCHANGED << results, gets, world, overtaken >>
    /\ ThreadFrame

\* Then they record None and return.
RecordNone(r, p) ==
    /\ thread[r][p].pc = "set_none"
    /\ results' = [results EXCEPT ![ResultsOf(r)] = Put(@, p, None)]
    /\ thread' = [thread EXCEPT ![r][p] = FinishedThread]
    /\ overtaken' = [overtaken EXCEPT ![r] = @ \/ Overtakes(r, p)]
    /\ UNCHANGED << platform_stats, stats_lock, gets, world >>
    /\ ThreadFrame

\* ------------------------------------------------------------------------
\* Specifications
\* ------------------------------------------------------------------------

Next ==
    \E r \in Runs :
        \/ Search(r)
        \/ StartThread(r)
        \/ JoinThread(r)
        \/ CompileStats(r)
        \/ \E p \in PlatformNames :
            \/ Get(r, p)
            \/ Acquire(r, p)
            \/ StoreResponse(r, p)
            \/ StoreValidation(r, p)
            \/ Decide(r, p)
            \/ TryVariation(r, p)
            \/ StoreVariation(r, p)
            \/ StoreFailure(r, p)
            \/ RecordNone(r, p)

Spec == Init /\ [][Next]_vars

SpecConc == InitConc /\ [][Next]_vars

SpecUnclean == InitUnclean /\ [][Next]_vars

\* One request, when no step that can be taken is put off for ever: every
\* GET returns or raises, every runnable thread runs.
SpecLive == InitLive /\ [][Next]_vars /\ WF_vars(Next)

\* generate_username_variations(username) returns.
Generate ==
    /\ gen_pc = "input"
    /\ gen_pc' = "returned"
    /\ gen_variations' = generate_username_variations(gen_username)
    /\ UNCHANGED gen_username
    /\ UNCHANGED << runVars, aloneVars >>

NextGen == Generate

SpecGen == InitGen /\ [][NextGen]_vars

\* ------------------------------------------------------------------------
\* The classification of a response, on its own
\* ------------------------------------------------------------------------

\* No request is served.
RunsOff ==
    /\ InitRuns({}, {<<>>})
    /\ image_link = [r \in Runs |-> NoImage]
    /\ world = ConcWorld

\* The platforms the classification is applied to: the ones with a branch
\* of their own, the third one that needs a profile indicator (Twitter), one
\* with error phrases in both probers (GitHub), one with error phrases in
\* check_platform only (Reddit), one with the 302 rule and one without any
\* rule.
ClsPlatforms ==
    {"Instagram", "Facebook", "LinkedIn", "Twitter", "GitHub", "Reddit", "Codechef", "Mix"}

ClsStatusCodes == {"200", "302", "404"}

\* Phrases of the final URL and of the body of the responses classified.
ClsUrlPhrases == {"accounts/login", "authwall", "404"}

ClsTextPhrases == {"followers", "404 not found", "sorry", "isn't available"}

ClsResponses ==
    { MakeResponse("none", status_code, url_marks, text_marks, FALSE) :
        status_code \in ClsStatusCodes,
        url_marks \in SUBSET ClsUrlPhrases,
        text_marks \in SUBSET ClsTextPhrases }

\* A response of a platform is about to be classified.
InitClassify ==
    /\ GenOff
    /\ RunsOff
    /\ cls_pc = "input"
    /\ cls_platform \in ClsPlatforms
    /\ cls_response \in ClsResponses
    /\ cls_verdict = NoVerdict
    /\ EnrOff /\ PfOff /\ UcOff

\* profile_exists as check_platform computes it and as
\* try_username_variations computes it, for the same response.
ClassifyResponse ==
    /\ cls_pc = "input"
    /\ cls_pc' = "classified"
    /\ cls_verdict' = [primary |-> PrimaryProfileExists(cls_platform, cls_response),
                       variation |-> VariationProfileExists(cls_platform, cls_response)]
    /\ UNCHANGED << cls_platform, cls_response >>
    /\ UNCHANGED << genVars, runVars, enrVars, pfVars, ucVars >>

NextClassify == ClassifyResponse

SpecClassify == InitClassify /\ [][NextClassify]_vars

\* ------------------------------------------------------------------------
\* enrich_results_with_idcrawl (src/idcrawl_scraper.py)
\* ------------------------------------------------------------------------

\* The keys original_results may have.
EnrKeys == {"profiles", "warnings", "discovered_data", "confidence"}

\* The warning of an earlier step.
PriorWarning == [source |-> "search", message |-> "partial results", requires_captcha |-> FALSE]

\* The dictionaries the function is called with: any of the keys, the
\* profile of one platform, one name discovered, no or one warning.
EnrOriginals ==
    { << MakeTop(keys, 50, "heap", <<>>, FALSE),
         MakeHeap(IF "profiles" \in keys THEN ("GitHub" :> "https://github.com/u") ELSE EmptyMap,
                  warnings,
                  IF "discovered_data" \in keys THEN <<"Ann">> ELSE <<>>, <<>>, <<>>) >> :
        keys \in SUBSET EnrKeys,
        warnings \in {<<>>, <<PriorWarning>>} }

\* The profiles idcrawl.com may report.
EnrFoundProfiles ==
    { EmptyMap,
      ("GitHub" :> "https://github.com/u2"),
      ("Twitter" :> "https://twitter.com/u"),
      ("GitHub" :> "https://github.com/u2") @@ ("Twitter" :> "https://twitter.com/u") }

\* The answers of idcrawl.com: a failure, with or without CAPTCHA, or a
\* success with or without the key 'profiles', with the metadata of one
\* platform (a name or none, the bio "I am a nurse from Paris" or none) and
\* with or without image metadata.
EnrAnswers ==
    { MakeAnswer(FALSE, captcha, FALSE, EmptyMap, "", FALSE, FALSE) : captcha \in BOOLEAN }
    \cup
    { MakeAnswer(TRUE, FALSE, has_profiles, IF has_profiles THEN profiles ELSE EmptyMap,
                 name, bio, image) :
        has_profiles \in BOOLEAN, profiles \in EnrFoundProfiles,
        name \in {"", "Ann", "Bob"}, bio \in BOOLEAN, image \in BOOLEAN }

\* The arguments of a call, with the answer the search will get when it is
\* made.
EnrCalls ==
    { [skip_idcrawl |-> skip, criteria |-> criteria, answer |-> answer] :
        skip \in BOOLEAN, criteria \in {"username", "full_name", "none"},
        answer \in EnrAnswers }

\* enrich_results_with_idcrawl is about to be called.
InitEnrich ==
    /\ GenOff
    /\ RunsOff
    /\ ClsOff /\ PfOff /\ UcOff
    /\ enr_pc = "call"
    /\ enr_args \in EnrCalls
    /\ (enr_args.skip_idcrawl \/ enr_args.criteria = "none") => enr_args.answer = NoAnswer
    /\ \E original \in EnrOriginals :
        /\ enr_original = original[1]
        /\ enr_heap = original[2]
    /\ "warnings" \notin enr_original.keys => enr_heap.warnings = <<>>
    /\ enr_before = << enr_original, enr_heap >>
    /\ enr_result = [returned |-> "none", top |-> NoTop]

\* original_results.copy(): a new dictionary with the same entries, which
\* refer to the same objects.
ShallowCopy(top) == top

\* The warning the function adds.
IdcrawlWarning(message) == [source |-> "idcrawl", message |-> message, requires_captcha |-> TRUE]

\* if "warnings" not in enriched_results: enriched_results["warnings"] = []
\* enriched_results["warnings"].append(...)
\* The state after it: the dictionary and the heap.
AddWarning(top, heap, message) ==
    LET top1 == IF "warnings" \in top.keys THEN top
                ELSE [top EXCEPT !.keys = @ \cup {"warnings"},
                                 !.warnings_at = "new", !.new_warnings = <<>>]
    IN  IF top1.warnings_at = "new"
        THEN [top |-> [top1 EXCEPT !.new_warnings = Append(@, IdcrawlWarning(message))],
              heap |-> heap]
        ELSE [top |-> top1,
              heap |-> [heap EXCEPT !.warnings = Append(@, IdcrawlWarning(message))]]

\* The dictionary `profiles` that top["profiles"] refers to; {} without
\* the key.
ProfilesOf(top, heap) == IF "profiles" \in top.keys THEN heap.profiles ELSE EmptyMap

\* "Merge profiles": the platforms reported that original_results does not
\* have are stored through enriched_results["profiles"].
MergeProfiles(original, answer, heap) ==
    IF "profiles" \in original.keys /\ answer.has_profiles
    THEN LET old == heap.profiles
         IN  [heap EXCEPT !.profiles =
                 [p \in DOMAIN old \cup DOMAIN answer.profiles |->
                     IF p \in DOMAIN old THEN old[p] ELSE answer.profiles[p]]]
    ELSE heap

\* if x not in list: list.append(x)
AppendNew(list, x) == IF x \in Range(list) THEN list ELSE Append(list, x)

\* "Add or merge discovered data": the name, and the location and the
\* occupation found in the bio, are appended through
\* enriched_results["discovered_data"].
MergeDiscovered(original, answer, heap) ==
    IF "discovered_data" \in original.keys
    THEN [heap EXCEPT
            !.discovered_data.possible_real_names =
                IF answer.name # "" THEN AppendNew(@, answer.name) ELSE @,
            !.discovered_data.possible_locations =
                IF answer.bio THEN AppendNew(@, "Paris") ELSE @,
            !.discovered_data.possible_occupations =
                IF answer.bio THEN AppendNew(@, "nurse from Paris") ELSE @]
    ELSE heap

\* "Add image data if available and not already present"
MergeImage(top, answer) ==
    IF answer.image_metadata /\ ~top.image_metadata
    THEN [top EXCEPT !.keys = @ \cup {"image_metadata"}, !.image_metadata = TRUE]
    ELSE top

\* "Update confidence if more profiles were found" (in hundredths).
BoostConfidence(original, top, heap) ==
    LET original_profile_count == Cardinality(DOMAIN ProfilesOf(original, heap))
        new_profile_count == Cardinality(DOMAIN ProfilesOf(top, heap))
        additional_profiles == new_profile_count - original_profile_count
    IN  IF "confidence" \in original.keys /\ new_profile_count > original_profile_count
        THEN [top EXCEPT !.confidence = Min(100, original.confidence + Min(20, additional_profiles * 4))]
        ELSE top

\* The call: what is returned (original_results itself or the copy) and
\* the heap after it.
EnrichOutcome(original, heap, args) ==
    LET enriched_results == ShallowCopy(original)
        answer == args.answer
    IN  IF args.skip_idcrawl
        THEN LET after == AddWarning(enriched_results, heap,
                                     "IdCrawl.com integration was skipped")
             IN  [returned |-> "copy", top |-> after.top, heap |-> after.heap]
        ELSE IF args.criteria = "none"
        THEN [returned |-> "original", top |-> original, heap |-> heap]
        ELSE IF ~answer.success /\ answer.requires_captcha
        THEN LET after == AddWarning(enriched_results, heap, "error_message")
             IN  [returned |-> "copy", top |-> after.top, heap |-> after.heap]
        ELSE IF ~answer.success
        THEN [returned |-> "original", top |-> original, heap |-> heap]
        ELSE LET heap1 == MergeProfiles(original, answer, heap)
                 heap2 == MergeDiscovered(original, answer, heap1)
                 top1 == MergeImage(enriched_results, answer)
             IN  [returned |-> "copy", top |-> BoostConfidence(original, top1, heap2),
                  heap |-> heap2]

\* enrich_results_with_idcrawl(original_results, ...) returns.
Enrich ==
    /\ enr_pc = "call"
    /\ enr_pc' = "returned"
    /\ LET outcome == EnrichOutcome(enr_original, enr_heap, enr_args)
       IN  /\ enr_heap' = outcome.heap
           /\ enr_result' = [returned |-> outcome.returned, top |-> outcome.top]
    /\ UNCHANGED << enr_args, enr_original, enr_before >>
    /\ UNCHANGED << genVars, runVars, clsVars, pfVars, ucVars >>

NextEnrich == Enrich

SpecEnrich == InitEnrich /\ [][NextEnrich]_vars

\* ---------------------------------------------------------------------
\* PeopleFinder.search_by_username, called on its own
\* ---------------------------------------------------------------------

FacebookCom == <<"f","a","c","e","b","o","o","k",".","c","o","m">>

GithubCom == <<"g","i","t","h","u","b",".","c","o","m">>

DevTo == <<"d","e","v",".","t","o">>

BehanceNet == <<"b","e","h","a","n","c","e",".","n","e","t">>

TinderCom == <<"t","i","n","d","e","r",".","c","o","m">>

\* One site of each kind of the list: a major network, a professional
\* platform of tier 2, one of no tier, one of tier 3, and a dating platform,
\* which has no URL format.
sites_to_check == << FacebookCom, GithubCom, DevTo, BehanceNet, TinderCom >>

\* The platforms whose exact match adds 0.90 rather than 0.80.
MajorPlatforms == {FacebookCom}

tier1_platforms == << FacebookCom >>

tier2_platforms == << GithubCom >>

tier3_platforms == << BehanceNet >>

\* A tier's loop: its sites, each with the number of variations tried at
\* most and the confidence of a match with the first variation (hundredths).
TierLoop(sites, max_variations, base) ==
    [i \in DOMAIN sites |->
        [site |-> sites[i], max_variations |-> max_variations, base |-> base]]

\* The three loops of the second pass, one after the other.
SecondPass ==
    TierLoop(tier1_platforms, 5, 75) \o TierLoop(tier2_platforms, 3, 65)
        \o TierLoop(tier3_platforms, 2, 55)

\* site.split('.')[0]
RECURSIVE BeforeDot(_)
BeforeDot(s) ==
    IF s = <<>> \/ Head(s) = "." THEN <<>> ELSE << Head(s) >> \o BeforeDot(Tail(s))

\* site_name = site.split('.')[0].capitalize()
SiteName(site) == Capitalize(BeforeDot(site))

\* The key of results["profiles"] a match is stored under.
ProfileKey(site) ==
    IF site = FacebookCom THEN <<"F","a","c","e","b","o","o","k">> ELSE SiteName(site)

\* The sites that url_formats has an entry for.
UrlFormatSites == {FacebookCom, GithubCom, DevTo, BehanceNet}

url_formats(site, handle) ==
    MakeUrl(CASE site = FacebookCom -> "https://www.facebook.com/"
              [] site = GithubCom -> "https://github.com/"
              [] site = DevTo -> "https://dev.to/"
              [] site = BehanceNet -> "https://www.behance.net/",
            handle, "")

\* The prefixes tried first, each alone, with "_" and with ".".
PfPrefixes == << RealPrefix, ThePrefix >>

RECURSIVE PrefixVariations(_, _)
PrefixVariations(prefixes, handle) ==
    IF prefixes = <<>> THEN <<>>
    ELSE << Head(prefixes) \o handle, Head(prefixes) \o <<"_">> \o handle,
            Head(prefixes) \o <<".">> \o handle >>
         \o PrefixVariations(Tail(prefixes), handle)

\* Removes the duplicates, compared in lower case, keeping the order.
RECURSIVE UniqueByLower(_, _)
UniqueByLower(variations, seen) ==
    IF variations = <<>> THEN <<>>
    ELSE IF Lower(Head(variations)) \in seen THEN UniqueByLower(Tail(variations), seen)
    ELSE << Head(variations) >>
         \o UniqueByLower(Tail(variations), seen \cup {Lower(Head(variations))})

\* _generate_username_variations, as far as the first two prefixes: the
\* variations after them are past the five that search_by_username reads.
PfVariations(handle) ==
    IF Len(handle) < 2 THEN << handle >>
    ELSE UniqueByLower(<< handle >> \o PrefixVariations(PfPrefixes, handle), {})

\* The variations of a username that a site may have a page for: the first
\* MaxSeen ones.
MaxSeen == 3

PfUsernames == { <<"a">>, <<"a","b">> }

\* "200 not available": status 200 with the text "isn't available" or
\* "The link you followed may be broken"; "404": any other status, or an
\* exception of the GET.
PfResponses == {"200", "200 not available", "404"}

\* How many of the variations the search may request of a site.
TriedOn(site) ==
    IF \E i \in DOMAIN SecondPass : SecondPass[i].site = site
    THEN LET i == CHOOSE k \in DOMAIN SecondPass : SecondPass[k].site = site
         IN  Min(MaxSeen, SecondPass[i].max_variations)
    ELSE 1

\* The requests a site may answer otherwise than with 404.
PfProbes(handle) ==
    UNION { { << site, PfVariations(handle)[i] >> :
                i \in 1..Min(TriedOn(site), Len(PfVariations(handle))) } :
            site \in UrlFormatSites }

PfWorlds(handle) ==
    { w \in [PfProbes(handle) -> PfResponses] :
        \A probe \in PfProbes(handle) :
            w[probe] = "200 not available" => probe[1] = FacebookCom }

ResponseTo(site, handle) ==
    IF << site, handle >> \in DOMAIN pf_exists THEN pf_exists[<< site, handle >>] ELSE "404"

InitPeople ==
    /\ GenOff
    /\ RunsOff
    /\ ClsOff /\ EnrOff /\ UcOff
    /\ pf_pc = "first"
    /\ pf_username \in PfUsernames
    /\ pf_exists \in PfWorlds(pf_username)
    /\ pf_idx = 1
    /\ pf_profiles = EmptyMap
    /\ pf_counts = NoCounts
    /\ pf_gets = <<>>
    /\ pf_summary = NoSummary

\* _check_username_on_site(handle, site, results): whether a profile was
\* found, results["profiles"] and the requests sent after the call.
CheckUsernameOnSite(handle, site, profiles, sent) ==
    IF site \notin UrlFormatSites
    THEN [found |-> FALSE, profiles |-> profiles, sent |-> sent]
    ELSE LET url == url_formats(site, handle)
             response == ResponseTo(site, handle)
             found == IF site = FacebookCom THEN response = "200"
                      ELSE response \in {"200", "200 not available"}
         IN  [found |-> found,
              profiles |-> IF found THEN Put(profiles, ProfileKey(site), url) ELSE profiles,
              sent |-> Append(sent, [site |-> site, handle |-> handle, found |-> found])]

\* site not in [p.lower() for p in results["profiles"]] is false
AlreadyFound(site, profiles) == site \in { Lower(p) : p \in DOMAIN profiles }

\* The first pass, one site per step.
PfFirstPass ==
    /\ pf_pc = "first"
    /\ LET site == sites_to_check[pf_idx]
           check == CheckUsernameOnSite(pf_username, site, pf_profiles, pf_gets)
       IN  /\ pf_profiles' = check.profiles
           /\ pf_gets' = check.sent
           /\ pf_counts' =
                IF check.found
                THEN [pf_counts EXCEPT
                        !.found_count = @ + 1,
                        !.total_confidence =
                            @ + (IF site \in MajorPlatforms THEN 90 ELSE 80)]
                ELSE pf_counts
    /\ IF pf_idx < Len(sites_to_check)
       THEN pf_idx' = pf_idx + 1 /\ pf_pc' = "first"
       ELSE pf_idx' = 1 /\ pf_pc' = "second"
    /\ UNCHANGED << pf_username, pf_exists, pf_summary >>
    /\ UNCHANGED << genVars, runVars, clsVars, enrVars, ucVars >>

\* for i, variation in enumerate(username_variations[:max_variations]),
\* from position i (counted from 0) on, with the break at the first match.
RECURSIVE TryVariations(_, _, _, _)
TryVariations(tier, variations, i, st) ==
    IF i >= Min(tier.max_variations, Len(variations)) THEN st
    ELSE LET variation == variations[i + 1]
         IN  IF variation = pf_username THEN TryVariations(tier, variations, i + 1, st)
             ELSE LET check == CheckUsernameOnSite(variation, tier.site, st.profiles, st.sent)
                      tried == [st.counts EXCEPT !.tried_variations_count = @ + 1]
                  IN  IF check.found
                      THEN [profiles |-> check.profiles, sent |-> check.sent,
                            counts |-> [tried EXCEPT
                                          !.found_count = @ + 1,
                                          !.variation_found_count = @ + 1,
                                          !.total_confidence = @ + tier.base - 5 * i]]
                      ELSE TryVariations(tier, variations, i + 1,
                                         [profiles |-> check.profiles, sent |-> check.sent,
                                          counts |-> tried])

\* The second pass, one site of a tier per step.
PfSecondPass ==
    /\ pf_pc = "second"
    /\ LET tier == SecondPass[pf_idx]
           st == [profiles |-> pf_profiles, sent |-> pf_gets, counts |-> pf_counts]
           after == IF AlreadyFound(tier.site, pf_profiles) THEN st
                    ELSE TryVariations(tier, PfVariations(pf_username), 0, st)
       IN  /\ pf_profiles' = after.profiles
           /\ pf_gets' = after.sent
           /\ pf_counts' = after.counts
    /\ IF pf_idx < Len(SecondPass)
       THEN pf_idx' = pf_idx + 1 /\ pf_pc' = "second"
       ELSE pf_idx' = 1 /\ pf_pc' = "summary"
    /\ UNCHANGED << pf_username, pf_exists, pf_summary >>
    /\ UNCHANGED << genVars, runVars, clsVars, enrVars, ucVars >>

\* results["confidence"] in ten-thousandths, the quotients rounded down.
PfConfidence(counts) ==
    IF counts.found_count > 0
    THEN LET base_confidence == (counts.total_confidence * 100) \div counts.found_count
             platform_diversity_bonus == Min(2000, counts.found_count * 400)
             variation_penalty ==
                 IF counts.variation_found_count > 0
                 THEN (counts.variation_found_count * 1500) \div counts.found_count
                 ELSE 0
         IN  Min(10000, base_confidence + platform_diversity_bonus - variation_penalty)
    ELSE 0

\* The confidence and the summary, which announces found_count profiles.
\* The IDCrawl step that follows calls enrich_results_with_idcrawl with
\* skip_idcrawl=True: it adds no profile, so that the count of profiles
\* never exceeds found_count and both are left as they are.
PfSummary ==
    /\ pf_pc = "summary"
    /\ pf_pc' = "returned"
    /\ pf_summary' = MakeSummary(PfConfidence(pf_counts), pf_counts.found_count)
    /\ UNCHANGED << pf_username, pf_exists, pf_idx, pf_profiles, pf_counts, pf_gets >>
    /\ UNCHANGED << genVars, runVars, clsVars, enrVars, ucVars >>

NextPeople == PfFirstPass \/ PfSecondPass \/ PfSummary

SpecPeople == InitPeople /\ [][NextPeople]_vars

\* ---------------------------------------------------------------------
\* check_username_on_site_async, called on its own
\* ---------------------------------------------------------------------

\* A site with all four patterns and two success elements, one with a
\* full-name pattern and three elements, one with the user pattern only,
\* and one that is not in PLATFORM_DETECTION_PATTERNS.
UcSites == {"Instagram", "Twitter", "Reddit", "Other"}

\* The patterns of PLATFORM_DETECTION_PATTERNS.get(site_name,
\* DEFAULT_DETECTION) besides the user pattern.
ExtraPatterns(site_name) ==
    CASE site_name = "Instagram" -> {"full_name_pattern", "bio_pattern", "followers_pattern"}
      [] site_name = "Twitter" -> {"full_name_pattern"}
      [] OTHER -> {}

\* The number of success elements of the site, three standing for three or
\* more.
SuccessElements(site_name) == IF site_name = "Instagram" THEN 2 ELSE 3

\* What re.search(user_pattern, response_text) gives: no match, a group
\* other than the username, the username, or, with the pattern of
\* DEFAULT_DETECTION, a match of "profile" or "username" whose group is None.
UserMatches(site_name) ==
    {"none", "other", "same"} \cup (IF site_name = "Other" THEN {"nogroup"} ELSE {})

\* CONFIG.username_check.allowed_http_codes, among the outcomes of the GET.
allowed_http_codes == {"200"}

UcStatuses == {"200", "404", "refused"}

\* The pages a site may answer with; the content matters with an allowed
\* status only, a page from which the username is extracted contains it,
\* and one with "profile" or "username" has a success element.
UcPages(site_name) ==
    { page \in
        { MakePage(status, error_phrase, user_match, full_name, bio, followers, elements,
                   username_in_content) :
            status \in UcStatuses, error_phrase \in BOOLEAN,
            user_match \in UserMatches(site_name), full_name \in BOOLEAN,
            bio \in BOOLEAN, followers \in BOOLEAN,
            elements \in 0..SuccessElements(site_name),
            username_in_content \in BOOLEAN } :
        /\ page.status \notin allowed_http_codes => page = [NoPage EXCEPT !.status = page.status]
        /\ page.user_match = "same" => page.username_in_content
        /\ page.user_match = "nogroup" => page.elements >= 1
        /\ page.full_name => "full_name_pattern" \in ExtraPatterns(site_name)
        /\ page.bio => "bio_pattern" \in ExtraPatterns(site_name)
        /\ page.followers => "followers_pattern" \in ExtraPatterns(site_name) }

InitChecker ==
    /\ GenOff
    /\ RunsOff
    /\ ClsOff /\ EnrOff /\ PfOff
    /\ uc_pc = "input"
    /\ uc_site \in UcSites
    /\ uc_page \in UcPages(uc_site)
    /\ uc_result = NewSiteResult

\* analyze_response(response_text, site_name, username): the confidence in
\* tenths. extracted_username.lower() raises when the group is None, which
\* ends the extraction of the metadata.
analyze_response(page, site_name) ==
    IF page.error_phrase THEN [found |-> FALSE, confidence |-> 0]
    ELSE LET raised == page.user_match = "nogroup"
             Extra(pattern, matches) ==
                 IF ~raised /\ pattern \in ExtraPatterns(site_name) /\ matches THEN 1 ELSE 0
             confidence ==
                 (IF page.user_match = "same" THEN 5 ELSE 0)
                 + Extra("full_name_pattern", page.full_name)
                 + Extra("bio_pattern", page.bio)
                 + Extra("followers_pattern", page.followers)
                 + (IF page.elements >= 3 THEN 3 ELSE page.elements)
                 + (IF page.username_in_content THEN 1 ELSE 0)
         IN  [found |-> confidence >= 5, confidence |-> confidence]

\* check_username_on_site_async: the result is built with the default
\* confidence, and found and confidence are then assigned from the analysis.
check_username_on_site_async ==
    /\ uc_pc = "input"
    /\ uc_pc' = "returned"
    /\ uc_result' =
         IF uc_page.status = "refused"
         THEN [NewSiteResult EXCEPT !.error = "Connection error"]
         ELSE IF uc_page.status \in allowed_http_codes
         THEN LET analysis == analyze_response(uc_page, uc_site)
              IN  [found |-> analysis.found,
                   confidence |-> analysis.confidence,
                   error |-> IF analysis.found THEN "none"
                             ELSE "Profile not found according to content analysis"]
         ELSE [NewSiteResult EXCEPT !.error = "HTTP status code"]
    /\ UNCHANGED << uc_site, uc_page >>
    /\ UNCHANGED << genVars, runVars, clsVars, enrVars, pfVars >>

NextChecker == check_username_on_site_async

SpecChecker == InitChecker /\ [][NextChecker]_vars

\* ------------------------------------------------------------------------
\* check_platform run on its own: the outcome as a function of the inputs
\* ------------------------------------------------------------------------

\* The first index from j on of a variation whose URL the site answers
\* with a page classified as a profile; 0 when there is none.
RECURSIVE FirstFound(_, _, _, _)
FirstFound(p, mode, variations, j) ==
    IF j > Len(variations) THEN 0
    ELSE LET var_url == VariationUrl(p, variations[j], EmptyMap)
             response == Respond(mode, var_url)
         IN  IF /\ var_url # NoUrl
                /\ response.exc = "none"
                /\ ~response.malformed
                /\ VariationProfileExists(p, response)
             THEN j
             ELSE FirstFound(p, mode, variations, j + 1)

\* What one call of check_platform leaves behind when nothing runs beside
\* it: whether results has an entry and which, and the entry of
\* platform_stats (`stored` tells whether there is one).
SequentialProbe(p, mode, clean, variations) ==
    LET url == PlatformUrl(p, clean)
        response == Respond(mode, url)
        first == MakeStats({"response_time", "status_code", "final_url", "response_text"},
                           response.status_code, "elapsed", FALSE, <<>>)
        j == FirstFound(p, mode, variations, 2)
    IN  IF response.exc = "Timeout"
        THEN [recorded |-> TRUE, url |-> None, stored |-> TRUE,
              stats |-> MakeStats({"response_time", "status_code"},
                                  "timeout", "TIMEOUT_SECONDS", FALSE, <<>>)]
        ELSE IF response.exc = "RequestException"
        THEN [recorded |-> TRUE, url |-> None, stored |-> TRUE,
              stats |-> MakeStats({"response_time", "status_code", "error"},
                                  "error", "elapsed", FALSE, <<>>)]
        ELSE IF response.malformed
        THEN [recorded |-> FALSE, url |-> None, stored |-> FALSE, stats |-> first]
        ELSE IF PrimaryProfileExists(p, response)
        THEN [recorded |-> TRUE, url |-> url, stored |-> TRUE,
              stats |-> [first EXCEPT !.keys = @ \cup {"validated", "variation_used"},
                                      !.validated = TRUE, !.variation_used = clean]]
        ELSE IF j # 0
        THEN [recorded |-> TRUE, url |-> VariationUrl(p, variations[j], EmptyMap),
              stored |-> TRUE,
              stats |-> MakeStats({"response_time", "status_code", "variation_used",
                                   "validated", "final_url", "response_text"},
                                  FoundPage.status_code, "elapsed", TRUE, variations[j])]
        ELSE [recorded |-> TRUE, url |-> None, stored |-> TRUE,
              stats |-> [first EXCEPT !.keys = @ \cup {"validated", "variation_used"},
                                      !.validated = FALSE, !.variation_used = clean]]

\* The probes of a run, each on its own.
SequentialProbes(r) ==
    [p \in Range(platform_items) |->
        SequentialProbe(p, world[p], clean_username[r], username_variations[r])]

\* The results dictionary they give.
SequentialResults(r) ==
    LET probes == SequentialProbes(r)
    IN  [p \in {q \in DOMAIN probes : probes[q].recorded} |-> probes[p].url]

\* The platform_stats dictionary they give.
SequentialStats(r) ==
    LET probes == SequentialProbes(r)
    IN  [p \in {q \in DOMAIN probes : probes[q].stored} |-> probes[p].stats]

\* ------------------------------------------------------------------------
\* Properties
\* ------------------------------------------------------------------------

\* The platforms a run has started a thread for.
Probed(r) == {p \in PlatformNames : thread[r][p].pc # "idle"}

\* The platforms whose thread has started and not ended.
InFlight(r) == {p \in PlatformNames : thread[r][p].pc \notin {"idle", "finished", "died"}}

\* The answer the site gave to the i-th GET of a run for a platform.
Answer(r, p, i) == Respond(world[p], gets[r][p][i])

\* Some GET for the platform raised Timeout or RequestException.
FailedGet(r, p) == \E i \in DOMAIN gets[r][p] : Answer(r, p, i).exc # "none"

\* The primary GET for the platform raised Timeout or RequestException.
PrimaryFailed(r, p) == gets[r][p] # <<>> /\ Answer(r, p, 1).exc # "none"

\* The outcome of a platform as the run's dictionaries record it.
Outcome(r, p) ==
    IF p \notin DOMAIN results[r] THEN "Missing"
    ELSE IF results[r][p] # None THEN "Found"
    ELSE IF p \notin DOMAIN platform_stats[r] THEN "NotFound"
    ELSE IF platform_stats[r][p].status_code = "timeout" THEN "Timeout"
    ELSE IF platform_stats[r][p].status_code = "error" THEN "Error"
    ELSE "NotFound"

\* C1: when check_social_media has returned, the results dictionary holds an
\* entry for every platform of the catalog (the keys of `platforms`).
C1_EveryCatalogPlatformRecorded ==
    \A r \in Runs : pc[r] = "done" => DOMAIN results[r] = PlatformNames

\* C2: when check_social_media has returned, stats['profiles_found'] is the
\* number of platforms whose outcome is Found, and the number of entries of
\* the returned found_profiles.
C2_ProfilesFoundCountsFound ==
    \A r \in Runs : pc[r] = "done" =>
        /\ reply[r].profiles_found = Cardinality({p \in PlatformNames : Outcome(r, p) = "Found"})
        /\ reply[r].profiles_found = Cardinality(DOMAIN reply[r].found_profiles)

\* A run returned with one profile found at the primary URL, one found with
\* a variation and one platform without a profile.
C2_Witness ==
    /\ pc[1] = "done"
    /\ reply[1].profiles_found = 2
    /\ \E p, q, n \in PlatformNames :
        /\ Outcome(1, p) = "Found" /\ results[1][p].handle = clean_username[1]
        /\ Outcome(1, q) = "Found" /\ results[1][q].handle # clean_username[1]
        /\ Outcome(1, n) \in {"NotFound", "Timeout"}

\* C3 as stated: whenever a GET for a platform (primary or variation) timed
\* out or failed, the platform is recorded with a Timeout or Error outcome
\* when the run has returned.
C3_AnyFailedGetRecorded ==
    \A r \in Runs : \A p \in PlatformNames :
        (pc[r] = "done" /\ FailedGet(r, p)) => Outcome(r, p) \in {"Timeout", "Error"}

\* A step of the main thread or of a prober thread of a run.
RunStep(r) ==
    \/ StartThread(r)
    \/ JoinThread(r)
    \/ CompileStats(r)
    \/ \E p \in PlatformNames :
        \/ Get(r, p) \/ Acquire(r, p) \/ StoreResponse(r, p)
        \/ StoreValidation(r, p) \/ Decide(r, p) \/ TryVariation(r, p)
        \/ StoreVariation(r, p) \/ StoreFailure(r, p) \/ RecordNone(r, p)

\* C3 amended: a timeout or connection error of the primary GET of a platform
\* does not stop the run (while the run has not returned, it can take a
\* step); when it has returned, that platform is recorded with None and the
\* status 'timeout' (for a Timeout) or 'error' (for a RequestException), and
\* every other probed platform has the entries its own probe gives.
C3_PrimaryFailureIsLocal ==
    \A r \in Runs :
        /\ (pc[r] \in {"spawn", "join", "stats"}) => ENABLED RunStep(r)
        /\ pc[r] = "done" =>
            \A p \in Probed(r) : PrimaryFailed(r, p) =>
                /\ Outcome(r, p) = (IF Answer(r, p, 1).exc = "Timeout" THEN "Timeout" ELSE "Error")
                /\ \A q \in Probed(r) \ {p} :
                    LET alone == SequentialProbe(q, world[q], clean_username[r],
                                                 username_variations[r])
                    IN  /\ (q \in DOMAIN results[r]) = alone.recorded
                        /\ q \in DOMAIN results[r] => results[r][q] = alone.url
                        /\ (q \in DOMAIN platform_stats[r]) = alone.stored
                        /\ q \in DOMAIN platform_stats[r] => platform_stats[r][q] = alone.stats

\* A run returned with one platform timed out, one refused and one found.
C3_Witness ==
    /\ pc[1] = "done"
    /\ \E p, q, f \in PlatformNames :
        /\ PrimaryFailed(1, p) /\ Outcome(1, p) = "Timeout"
        /\ PrimaryFailed(1, q) /\ Outcome(1, q) = "Error"
        /\ Outcome(1, f) = "Found"
    /\ reply[1].timeouts = 1
    /\ reply[1].errors = 1

\* C4: a platform whose response could not be handled (reading its text
\* raised an exception that is not a requests exception) has an entry in
\* results and is counted as an error when the run has returned.
C4_HandlingExceptionRecordedAsError ==
    \A r \in Runs : \A p \in PlatformNames :
        (pc[r] = "done" /\ gets[r][p] # <<>> /\ Answer(r, p, 1).malformed) =>
            /\ p \in DOMAIN results[r]
            /\ Outcome(r, p) = "Error"
            /\ reply[r].errors >= 1

\* C5: a request whose username is empty or blank is answered with the
\* error and no GET is sent for it: no thread is started and no URL is
\* requested for any platform.
C5_EmptyUsernameRejectedWithoutGet ==
    \A r \in Runs : Strip(raw_username[r]) = <<>> =>
        /\ pc[r] \in {"off", "request", "rejected"}
        /\ pc[r] = "rejected" => (reply[r].status = "error" /\ reply[r].http = 400)
        /\ \A p \in PlatformNames : gets[r][p] = <<>> /\ thread[r][p].pc = "idle"

\* A request with a blank username has been rejected.
C5_Witness ==
    /\ pc[1] = "rejected"
    /\ raw_username[1] = <<" ">>
    /\ reply[1].http = 400

\* C6: the number of prober threads of a run that have started and not ended
\* is never above MAX_THREADS.
C6_AtMostMaxThreadsInFlight ==
    \A r \in Runs : Cardinality(InFlight(r)) <= MAX_THREADS

\* MAX_THREADS probers of a run are at their GET at once, and platforms are
\* left for a later batch.
C6_Witness ==
    /\ Cardinality({p \in PlatformNames : thread[1][p].pc = "get"}) = MAX_THREADS
    /\ \E p \in Range(platform_items) : thread[1][p].pc = "idle"

\* C7: when a prober of a batch has started, every prober of the batch before
\* has ended.
C7_BatchBarrier ==
    \A r \in Runs : \A i, j \in DOMAIN platform_items :
        (BatchOf(j) = BatchOf(i) + 1 /\ thread[r][platform_items[j]].pc # "idle") =>
            thread[r][platform_items[i]].pc \in {"finished", "died"}

\* A prober of the second batch is at its GET.
C7_Witness ==
    \E j \in DOMAIN platform_items :
        /\ BatchOf(j) = 1
        /\ thread[1][platform_items[j]].pc = "get"

\* C8: when the run has returned, the results dictionary, the platform_stats
\* dictionary and the statistics are the ones the probes give each on its
\* own, for the answers of the sites: they do not depend on the order in
\* which the probers ran and ended.
C8_ResultIndependentOfSchedule ==
    \A r \in Runs : pc[r] = "done" =>
        LET alone == SequentialProbes(r)
        IN  /\ results[r] = SequentialResults(r)
            /\ platform_stats[r] = SequentialStats(r)
            /\ reply[r].profiles_found =
                   Cardinality({p \in DOMAIN alone : alone[p].recorded /\ alone[p].url # None})
            /\ reply[r].timeouts =
                   Cardinality({p \in DOMAIN alone : alone[p].stats.status_code = "timeout"})
            /\ reply[r].errors =
                   Cardinality({p \in DOMAIN alone : alone[p].stats.status_code = "error"})

\* A run returned in which a prober ended before one started earlier, both
\* with a profile.
C8_Witness ==
    /\ pc[1] = "done"
    /\ overtaken[1]
    /\ Outcome(1, platform_items[1]) = "Found"
    /\ Outcome(1, platform_items[2]) = "Found"

\* C9: with two runs at the same time, every entry a run has recorded is the
\* one its probe gives on its own, the lock of a run is held only by a
\* prober of that run, and when a run has returned its dictionaries and
\* statistics are the ones it gives running alone.
C9_ConcurrentRunsIsolated ==
    \A r \in Runs :
        LET alone == SequentialResults(r)
        IN  /\ \A p \in DOMAIN results[r] :
                /\ p \in DOMAIN alone
                /\ results[r][p] = alone[p]
            /\ stats_lock[r] # "free" =>
                   thread[r][stats_lock[r]].pc \in {Locked(at) : at \in LockWaits}
            /\ pc[r] = "done" =>
                /\ results[r] = alone
                /\ platform_stats[r] = SequentialStats(r)
                /\ reply[r].found_profiles = FoundProfiles(alone)
                /\ reply[r].profiles_found = Cardinality(DOMAIN FoundProfiles(alone))

\* Both runs have probers in flight and entries recorded, for different
\* usernames.
C9_Witness ==
    /\ InFlight(1) # {} /\ InFlight(2) # {}
    /\ results[1] # EmptyMap /\ results[2] # EmptyMap
    /\ username[1] # username[2]
    /\ \E p \in DOMAIN results[1] : results[1][p] # None

\* C10: for a non-empty username, the first element of the list
\* generate_username_variations returns is the username.
C10_FirstVariationIsUsername ==
    (gen_pc = "returned" /\ gen_username # <<>>) =>
        (gen_variations # <<>> /\ gen_variations[1] = gen_username)

\* C11: the list generate_username_variations returns holds no two entries
\* that are equal when compared case-insensitively.
C11_NoCaseInsensitiveDuplicates ==
    gen_pc = "returned" =>
        \A i, j \in DOMAIN gen_variations :
            Lower(gen_variations[i]) = Lower(gen_variations[j]) => i = j

\* C12: for an empty or whitespace-only username generate_username_variations
\* returns the empty list.
C12_BlankUsernameGivesNoVariations ==
    (gen_pc = "returned" /\ Strip(gen_username) = <<>>) => gen_variations = <<>>

\* C13: for a probed platform whose primary GET returned a readable
\* response, when the run has returned the GETs issued for the platform are
\* the primary URL alone when the primary attempt is Found, and otherwise the
\* primary URL followed by the URLs of variations[1:] in list order, none
\* Found before the last one, ending with the first one Found or with the
\* last variation.
C13_GetsFollowVariationOrder ==
    \A r \in Runs : \A p \in PlatformNames :
        (/\ pc[r] = "done"
         /\ gets[r][p] # <<>>
         /\ Answer(r, p, 1).exc = "none"
         /\ ~Answer(r, p, 1).malformed) =>
            LET issued == gets[r][p]
                tried == Len(issued) - 1
                vars_ == username_variations[r]
                Hit(k) == /\ Answer(r, p, k + 1).exc = "none"
                          /\ VariationProfileExists(p, Answer(r, p, k + 1))
            IN  /\ issued[1] = PlatformUrl(p, clean_username[r])
                /\ PrimaryProfileExists(p, Answer(r, p, 1)) => tried = 0
                /\ ~PrimaryProfileExists(p, Answer(r, p, 1)) =>
                    /\ tried <= Len(vars_) - 1
                    /\ \A k \in 1..tried :
                        issued[k + 1] = PlatformUrl(p, CleanForUrl(vars_[k + 1]))
                    /\ \A k \in 1..(tried - 1) : ~Hit(k)
                    /\ \/ tried = Len(vars_) - 1
                       \/ tried >= 1 /\ Hit(tried)

\* C14: a platform whose primary GET raised Timeout or RequestException gets
\* no further GET; once its thread has ended it is recorded with None, and
\* its entry has the status 'timeout' and the response time TIMEOUT_SECONDS
\* for a Timeout, the status 'error' and the key 'error' (the message) for a
\* RequestException.
C14_PrimaryFailureRecordedWithoutRetry ==
    \A r \in Runs : \A p \in PlatformNames :
        PrimaryFailed(r, p) =>
            /\ Len(gets[r][p]) = 1
            /\ thread[r][p].pc = "finished" =>
                /\ p \in DOMAIN results[r] /\ results[r][p] = None
                /\ p \in DOMAIN platform_stats[r]
                /\ LET entry == platform_stats[r][p]
                   IN  IF Answer(r, p, 1).exc = "Timeout"
                       THEN /\ entry.status_code = "timeout"
                            /\ entry.response_time = "TIMEOUT_SECONDS"
                            /\ entry.keys = {"response_time", "status_code"}
                       ELSE /\ entry.status_code = "error"
                            /\ "error" \in entry.keys

\* A run with variations to try has one thread ended after a primary
\* Timeout and one after a primary RequestException.
C14_Witness ==
    /\ Len(username_variations[1]) > 1
    /\ \E p, q \in PlatformNames :
        /\ thread[1][p].pc = "finished" /\ PrimaryFailed(1, p)
        /\ Answer(1, p, 1).exc = "Timeout"
        /\ thread[1][q].pc = "finished" /\ PrimaryFailed(1, q)
        /\ Answer(1, q, 1).exc = "RequestException"

AllAnswered(r, p) ==
    /\ gets[r][p] # <<>>
    /\ \A i \in DOMAIN gets[r][p] : Answer(r, p, i).exc = "none"

\* C16: when the run has returned, stats['timeouts'] is the number of probed
\* platforms whose primary GET timed out, which are the platforms recorded
\* as Timeout, stats['errors'] the number whose primary GET raised a
\* RequestException, which are the platforms recorded as Error, and a
\* platform that answered every GET with a response is in neither.
C16_TimeoutsAndErrorsCounted ==
    \A r \in Runs : pc[r] = "done" =>
        LET timed == {p \in Probed(r) : PrimaryFailed(r, p) /\ Answer(r, p, 1).exc = "Timeout"}
            failed == {p \in Probed(r) :
                          PrimaryFailed(r, p) /\ Answer(r, p, 1).exc = "RequestException"}
        IN  /\ reply[r].timeouts = Cardinality(timed)
            /\ reply[r].errors = Cardinality(failed)
            /\ timed = {p \in PlatformNames : Outcome(r, p) = "Timeout"}
            /\ failed = {p \in PlatformNames : Outcome(r, p) = "Error"}
            /\ \A p \in Probed(r) : AllAnswered(r, p) => p \notin timed \cup failed

\* A run returned with one platform timed out, one refused, and one that
\* answered 404 to the primary URL and to every variation.
C16_Witness ==
    /\ pc[1] = "done"
    /\ reply[1].timeouts = 1
    /\ reply[1].errors = 1
    /\ \E p \in Probed(1) :
        /\ Len(gets[1][p]) > 1
        /\ \A i \in DOMAIN gets[1][p] :
            Answer(1, p, i).exc = "none" /\ Answer(1, p, i).status_code = "404"
        /\ Outcome(1, p) = "NotFound"

\* C17: the reverse-image links of a run with an image carry the five
\* engine keys, and two runs that were given the same image URL have
\* returned the same links.
C17_ReverseLinksDependOnImageOnly ==
    \A r \in Runs : (pc[r] = "done" /\ image_link[r] # NoImage) =>
        /\ DOMAIN reply[r].reverse_image_urls = {"Google", "Bing", "Yandex", "Baidu", "TinEye"}
        /\ \A other \in Runs : (pc[other] = "done" /\ image_link[other] = image_link[r]) =>
               reply[other].reverse_image_urls = reply[r].reverse_image_urls

\* The request of the run is answered, its batches are joined and every
\* prober thread it started has ended.
Returned(r) ==
    /\ pc[r] \in {"off", "done", "rejected"}
    /\ \A p \in PlatformNames : thread[r][p].pc \in {"idle", "finished", "died"}

\* C18: every request is eventually answered, with every batch joined and
\* every prober thread ended, and stays so: the run does not stop at the
\* stats lock or at a batch barrier.
C18_RunEventuallyReturns == <>[](\A r \in Runs : Returned(r))

\* A prober waits for the stats lock while another prober of the batch holds
\* it, and the main thread waits at the batch barrier.
C18_Witness ==
    /\ pc[1] = "join"
    /\ \E p, q \in PlatformNames :
        /\ p # q
        /\ stats_lock[1] = p
        /\ thread[1][q].pc \in LockWaits

\* The entry of platform p in dictionary d is written by the step.
EntryWritten(d, p) ==
    /\ p \in DOMAIN d'
    /\ p \notin DOMAIN d \/ d'[p] # d[p]

\* C19: every step that writes an entry of results or of platform_stats is
\* taken by a prober that holds the stats lock of the run.
C19_WritesUnderLock ==
    [][\A r \in Runs : \A p \in PlatformNames :
          (EntryWritten(results[r], p) \/ EntryWritten(platform_stats[r], p)) =>
              stats_lock[r] = p]_vars

\* C20 as stated: a GET for a platform that raised Timeout or
\* RequestException is the last GET issued for the platform in the run.
C20_AnyFailedGetIsLast ==
    \A r \in Runs : \A p \in PlatformNames : \A i \in DOMAIN gets[r][p] :
        Answer(r, p, i).exc # "none" => i = Len(gets[r][p])

\* C20, amended: only the primary GET is followed by no other GET when it
\* raises Timeout or RequestException; after a variation GET that raised,
\* the loop goes on, so that once the thread has ended the failed variation
\* GET is followed by another GET unless it was for the last variation.
C20_OnlyPrimaryFailureIsTerminal ==
    \A r \in Runs : \A p \in PlatformNames : \A i \in DOMAIN gets[r][p] :
        Answer(r, p, i).exc # "none" =>
            /\ i = 1 => Len(gets[r][p]) = 1
            /\ (i > 1 /\ thread[r][p].pc = "finished") =>
                   (i < Len(gets[r][p]) \/ i = Len(username_variations[r]))

\* A thread has ended whose variation GET timed out and was followed by the
\* GET of the next variation, and another one whose primary GET failed.
C20_Witness ==
    \E p, q \in PlatformNames :
        /\ thread[1][p].pc = "finished"
        /\ \E i \in DOMAIN gets[1][p] :
            i > 1 /\ Answer(1, p, i).exc = "Timeout" /\ i < Len(gets[1][p])
        /\ thread[1][q].pc = "finished"
        /\ PrimaryFailed(1, q)
        /\ Len(gets[1][q]) = 1

\* C21: a response whose body contains an error phrase that applies to the
\* platform (of its own list, or of the generic patterns when it has none)
\* is classified as no profile by check_platform, for every platform and
\* every status code.
C21_ErrorPhraseAlwaysNotFound ==
    (cls_pc = "classified"
     /\ has_error_indicators(cls_platform, cls_response, error_indicators)) =>
        ~cls_verdict.primary

\* C22: check_platform classifies a response as a profile exactly when the
\* platform is Codechef and the status is 302, or the status is 200, the
\* body has no error phrase that applies to the platform, the final URL has
\* no login indicator and, for Twitter, Instagram and Facebook, the body has
\* a profile indicator.
C22_FoundOnlyOnCleanOkOrCodechef302 ==
    cls_pc = "classified" =>
        (cls_verdict.primary <=>
            \/ cls_platform = "Codechef" /\ cls_response.status_code = "302"
            \/ /\ cls_response.status_code = "200"
               /\ ~has_error_indicators(cls_platform, cls_response, error_indicators)
               /\ ~\E indicator \in login_indicators :
                      PhraseIn(indicator, cls_response.url_marks)
               /\ cls_platform \in {"Twitter", "Instagram", "Facebook"} =>
                      \E indicator \in profile_indicators :
                          PhraseIn(indicator, cls_response.text_marks))

\* A status-200 response of Instagram with a profile indicator and no
\* negative signal has been classified as a profile.
C22_Witness ==
    /\ cls_pc = "classified"
    /\ cls_platform = "Instagram"
    /\ cls_response.status_code = "200"
    /\ cls_response.url_marks = {}
    /\ cls_response.text_marks = {"followers"}
    /\ cls_verdict.primary

\* C23: for every platform and every response, try_username_variations
\* computes the verdict check_platform computes.
C23_BothProbersClassifyAlike ==
    cls_pc = "classified" => cls_verdict.variation = cls_verdict.primary

\* The characters of a URL after the text its template puts before the
\* handle.
UrlTail(url) == url.handle \o (IF url.suffix = "/" THEN <<"/">> ELSE <<>>)

\* The characters of s before the first delimiter of a path segment.
RECURSIVE UpToDelimiter(_)
UpToDelimiter(s) ==
    IF s = <<>> \/ Head(s) \in {"/", "?", "#"} THEN <<>>
    ELSE <<Head(s)>> \o UpToDelimiter(Tail(s))

\* The path segment of a URL at the place where its template has the handle.
PathSegment(url) == UpToDelimiter(UrlTail(url))

\* C24: for a platform try_username_variations has a URL pattern for (the
\* handle is one path segment), the URL requested for a variation has
\* exactly that variation as its path segment.
C24_VariationUrlRoundTrip ==
    \A r \in Runs : \A p \in PlatformNames :
        HasVariationPattern(p) =>
            \A i \in 2..Len(gets[r][p]) :
                PathSegment(gets[r][p][i]) = username_variations[r][i]

\* C28: when check_social_media has returned, stats['platforms_checked'] is
\* the number of platforms a check_platform thread was started for, and the
\* profiles found, the platforms without a profile, the timeouts and the
\* errors add up to it.
C28_PlatformsCheckedCountsProbed ==
    \A r \in Runs : pc[r] = "done" =>
        /\ reply[r].platforms_checked = Cardinality(Probed(r))
        /\ reply[r].platforms_checked =
               reply[r].profiles_found
               + Cardinality({p \in PlatformNames : Outcome(r, p) = "NotFound"})
               + reply[r].timeouts + reply[r].errors

\* C29: the URLs requested for a platform in one run are pairwise distinct.
C29_NoUrlRequestedTwice ==
    \A r \in Runs : \A p \in PlatformNames : \A i, j \in DOMAIN gets[r][p] :
        gets[r][p][i] = gets[r][p][j] => i = j

\* C30: no URL requested is built from an empty handle.
C30_NoGetForEmptyHandle ==
    \A r \in Runs : \A p \in PlatformNames : \A i \in DOMAIN gets[r][p] :
        gets[r][p][i].handle # <<>>

\* C25: when enrich_results_with_idcrawl has returned, the dictionary passed
\* as original_results and the objects its entries refer to (profiles,
\* warnings, discovered_data) are as they were at the call.
C25_EnrichLeavesOriginalAlone ==
    enr_pc = "returned" => << enr_original, enr_heap >> = enr_before

\* C26: in search_by_username the second pass tries variations on a
\* platform only if the first pass recorded no profile for it, so that no
\* platform is counted in found_count more than once: the requests that
\* found a profile are for pairwise different sites, a site whose exact
\* username was found is sent no variation, and found_count is the number
\* of platforms in results["profiles"].
C26_NoPlatformCountedTwice ==
    /\ \A i, j \in DOMAIN pf_gets :
         (pf_gets[i].found /\ pf_gets[j].found /\ pf_gets[i].site = pf_gets[j].site)
            => i = j
    /\ \A i, j \in DOMAIN pf_gets :
         (pf_gets[i].found /\ pf_gets[i].handle = pf_username
            /\ pf_gets[j].site = pf_gets[i].site)
            => pf_gets[j].handle = pf_username
    /\ pf_counts.found_count = Cardinality(DOMAIN pf_profiles)

\* C27: the confidence of every IdcrawlSiteResult returned by
\* check_username_on_site_async lies within [0, 1] (0 to 10 tenths), for
\* every combination of signals that analyze_response adds up.
C27_ConfidenceWithinUnitInterval ==
    uc_pc = "returned" => uc_result.confidence \in 0..10

====
